---------------------------- MODULE Spec2Model ----------------------------
(***************************************************************************)
(* State-machine model of the omiGlass firmware control plane              *)
(* (src/omiGlass/firmware/src/app.cpp, opus_encoder.cpp).                  *)
(*                                                                         *)
(* Every function of the firmware is an operator that constrains the       *)
(* variables the function can write; the specifications at the end compose *)
(* these operators, either as a harness that calls one component in every  *)
(* order (SpecRing, SpecPcm, ...) or as the cooperative loop loop_app with *)
(* the BLE callbacks interleaved between its steps (SpecLoop).             *)
(*                                                                         *)
(* config.h is not part of the sources; the buffer geometry it defines     *)
(* (OPUS_OUTPUT_MAX_BYTES, AUDIO_TX_RING_BUFFER_SIZE, ...) is scaled down  *)
(* and named as bounds below.                                              *)
(***************************************************************************)
EXTENDS Integers, Sequences, FiniteSets, TLC

(***************************************************************************)
(* Bounds (scaled-down buffer geometry and input domains)                  *)
(***************************************************************************)
\* OPUS_OUTPUT_MAX_BYTES (config.h), scaled: longest encoded packet.
OPUS_OUTPUT_MAX_BYTES == 2
\* AUDIO_TX_RING_BUFFER_SIZE (config.h), scaled: packet slots of the tx ring.
AUDIO_TX_RING_BUFFER_SIZE == 2
\* Encoder input is cut off once the sequence number is this far past 0.
MaxSent == 2
\* AUDIO_RING_BUFFER_SAMPLES (config.h), scaled: cells of the sample ring.
AUDIO_RING_BUFFER_SAMPLES == 5
\* OPUS_FRAME_SAMPLES (config.h), scaled: samples per encoder frame.
OPUS_FRAME_SAMPLES == 2
\* MIC_BUFFER_SAMPLES (config.h), scaled: most samples one i2s_read returns.
MIC_BUFFER_SAMPLES == 2
\* Largest JPEG frame the camera returns in the explorations, in bytes.
MaxImageLen == 450
\* How long the button explorations run, in ms.
ButtonHorizon == 3100
\* How long the power-management explorations run, in ms.
PowerHorizon == 60000
\* How long the light-sleep explorations run, in ms.
SleepHorizon == 20001
\* WIFI_MAX_SSID_LEN, WIFI_MAX_PASS_LEN, OTA_MAX_URL_LEN (config.h), scaled:
\* longest SSID, password and firmware URL the OTA worker stores.
WIFI_MAX_SSID_LEN == 2
WIFI_MAX_PASS_LEN == 2
OTA_MAX_URL_LEN == 2

(***************************************************************************)
(* Program constants                                                       *)
(***************************************************************************)
\* PHOTO_CAPTURE_INTERVAL_MS (app.cpp:1095, 1239: 30 s)
PHOTO_CAPTURE_INTERVAL_MS == 30000
\* IDLE_THRESHOLD_MS (app.cpp:1297, 1337: 45 s)
IDLE_THRESHOLD_MS == 45000
\* enableLightSleep (app.cpp:377, 392, 394, 395)
LIGHT_SLEEP_QUIET_MS == 5000
LIGHT_SLEEP_MIN_HEADROOM_MS == 10000
LIGHT_SLEEP_MARGIN_MS == 5000
LIGHT_SLEEP_MAX_MS == 15000
\* handleButton (app.cpp:283, 294)
DEBOUNCE_MS == 50
LONG_PRESS_MS == 2000
\* updateLED (app.cpp:198, 213)
BOOT_SEQUENCE_MS == 1500
POWER_OFF_SEQUENCE_MS == 800
\* photo chunk payload caps (app.cpp:1407, 1414)
FIRST_CHUNK_MAX == 199
CHUNK_MAX == 200

\* app.cpp:109
AUDIO_TX_BUFFER_SIZE == AUDIO_TX_RING_BUFFER_SIZE * (OPUS_OUTPUT_MAX_BYTES + 2)

\* uint16_t audioPacketIndex (app.cpp:95)
UINT16_MOD == 2^16

\* Byte value of the encoder output; it differs from every length byte a
\* record header can hold, so a record read at the wrong offset shows.
DataBytes == {9}

\* Encoder outputs of length lo..hi.
PayloadsOfLen(lo, hi) == UNION {[1..n -> DataBytes] : n \in lo..hi}

\* Inputs of onOpusEncoded: opus_process never forwards length 0; the longest
\* one exercises the oversize guard.
Payloads == PayloadsOfLen(1, OPUS_OUTPUT_MAX_BYTES + 1)

NoPacket == <<>>

\* Width of the millis() counter.  unsigned long has 32 bits; the model keeps
\* the modular arithmetic with 30 bits, which TLC's integers can hold and
\* which is far above every threshold and every clock value of the model.
ULONG_MOD == 2^30

\* a - b on unsigned long
USub(a, b) == (a - b) % ULONG_MOD

VARIABLES
    \* ---- time base and position of the loop task
    clock,                  \* millis()
    pc,                     \* step of loop_app (or of a harness) to run next
    loopNow,                \* loop_app's local `now` (app.cpp:1302)
    \* ---- BLE link state (app.cpp:94,100)
    connected,
    audioSubscribed,
    \* ---- sample ring and encoder adapter (opus_encoder.cpp:23-29)
    pcm_ring_buffer,
    ring_write_pos,
    ring_read_pos,
    opus_input_buffer,
    pcmSinceRead,           \* newest samples pushed since the last pop (observer)
    pcmUnread,              \* samples pushed and neither popped nor displaced (observer)
    \* ---- packet ring (app.cpp:110-112)
    audio_tx_buffer,
    audio_tx_write_pos,
    audio_tx_read_pos,
    \* ---- audio transport sender (app.cpp:95)
    audioPacketIndex,
    audioNotify,            \* last audio notification [n, seq, wire] (observer)
    \* ---- observers of the packet ring
    txAccepted,             \* accepted payloads not yet popped, oldest first
    txPopped,               \* last record passed to broadcastAudioPacket
    txExpected,             \* oldest accepted payload at that moment
    txOverrun,              \* an accepted publish wrote into unread bytes
    txPublish,              \* the last onOpusEncoded call since the last drain
    \* ---- photo capture and transfer (app.cpp:101-103,118-125,1389)
    isCapturingPhotos,
    captureInterval,
    lastCaptureTime,
    photoDataUploading,
    fb,                     \* NoFb or [len |-> image length]
    sent_photo_bytes,
    sent_photo_frames,
    photo_chunks_this_loop,
    photoLog,               \* photo notifications of the current session (observer)
    photoObs,               \* what the last photo step saw and did (observer)
    \* ---- activity clock and power mode (app.cpp:51,52)
    lastActivity,
    powerSaveMode,
    cpuFreq,                \* last setCpuFrequencyMhz argument
    powerObs,               \* power-mode checks since their inputs last changed (observer)
    sleepObs,               \* last enableLightSleep call: inputs and outcome (observer)
    \* ---- button and LED (app.cpp:46-48,189,190,274-276)
    pin,                    \* physical level: TRUE = pressed
    buttonPressed,
    buttonPressTime,
    lastDebounceTime,
    buttonDown,
    longPressTriggered,
    ledMode,
    bootStartTime,
    powerOffStartTime,
    buttonObs,              \* the last accepted transitions (observer)
    \* ---- PhotoControlCallback::onWrite seen statement by statement
    blePc,                  \* command and statement the photo-control callback is at
    photoCmd,               \* last command handlePhotoControl returned from (observer)
    \* ---- OTA worker (ota.cpp:36-52)
    otaStatus,
    otaProgress,
    otaCancelled,
    wifiSSID,
    wifiPassword,
    wifiCredentialsSet,
    firmwareURL,
    firmwareURLSet,
    otaTaskRunning,
    otaTasks,               \* position of every ota_task that exists
    otaObs                  \* the last command, the current run (observer)

loopVars   == <<pc, loopNow>>
bleVars    == <<connected, audioSubscribed>>
pcmVars    == <<pcm_ring_buffer, ring_write_pos, ring_read_pos, opus_input_buffer,
                pcmSinceRead, pcmUnread>>
ringVars   == <<audio_tx_buffer, audio_tx_write_pos, audio_tx_read_pos>>
ringObs    == <<txAccepted, txPopped, txExpected, txOverrun, txPublish>>
sendVars   == <<audioPacketIndex, audioNotify>>
captureVars == <<isCapturingPhotos, captureInterval, lastCaptureTime>>
photoVars  == <<photoDataUploading, fb, sent_photo_bytes, sent_photo_frames,
                photo_chunks_this_loop, photoLog, photoObs>>
cpuVars    == <<powerSaveMode, cpuFreq>>
powerVars  == <<lastActivity, cpuVars>>
buttonVars == <<buttonPressed, buttonPressTime, lastDebounceTime, buttonDown,
                longPressTriggered, buttonObs>>
ledVars    == <<ledMode, bootStartTime, powerOffStartTime>>

audioVars  == <<pcmVars, ringVars, ringObs, sendVars>>
uiVars     == <<pin, buttonVars, ledVars>>

obsVars    == <<sleepObs, powerObs>>
ctlVars    == <<blePc, photoCmd>>
wifiVars   == <<wifiSSID, wifiPassword, wifiCredentialsSet, firmwareURL,
                firmwareURLSet>>
otaVars    == <<otaStatus, otaProgress, otaCancelled, wifiVars, otaTaskRunning,
                otaTasks, otaObs>>
taskVars   == <<ctlVars, otaVars>>

vars == <<clock, loopVars, bleVars, audioVars, captureVars, photoVars,
          powerVars, obsVars, uiVars, taskVars>>

(***************************************************************************)
(* Packet ring: onOpusEncoded (publish)                                    *)
(***************************************************************************)
\* Bytes between read and write position, taking the positions at face value.
RingUsed(w, r) == (w - r + AUDIO_TX_BUFFER_SIZE) % AUDIO_TX_BUFFER_SIZE

\* Overflow test of onOpusEncoded (app.cpp:483-485): TRUE = drop the packet.
RingWouldOverflow(w, r, next_write) ==
    \/ (w < r /\ next_write >= r)
    \/ (w >= r /\ next_write < w /\ next_write >= r)

\* The buffer after the framed record [len_lo][len_hi][data] is written at w.
RingWrite(buf, w, data) ==
    LET len == Len(data) IN
    [i \in 0..(AUDIO_TX_BUFFER_SIZE - 1) |->
        IF \E k \in 0..(len - 1) : i = (w + 2 + k) % AUDIO_TX_BUFFER_SIZE
        THEN data[((i - w - 2 + 2 * AUDIO_TX_BUFFER_SIZE) % AUDIO_TX_BUFFER_SIZE) + 1]
        ELSE IF i = (w + 1) % AUDIO_TX_BUFFER_SIZE THEN (len \div 256) % 256
        ELSE IF i = w THEN len % 256
        ELSE buf[i]]

\* TRUE when onOpusEncoded admits a packet of this length in the current state.
PublishAccepts(len) ==
    /\ len <= OPUS_OUTPUT_MAX_BYTES
    /\ ~RingWouldOverflow(audio_tx_write_pos, audio_tx_read_pos,
                          (audio_tx_write_pos + len + 2) % AUDIO_TX_BUFFER_SIZE)

\* A rejection that has already stored the length field at the write position.
RingRejected_Header(buf, w, data) ==
    [buf EXCEPT ![w] = Len(data) % 256,
                ![(w + 1) % AUDIO_TX_BUFFER_SIZE] = Len(data) \div 256]

\* The ring after a rejected publish: both tests return before the first
\* write (app.cpp:473-485).
RingRejected(buf, w, data) == buf

\* No onOpusEncoded call since the last drain.
NoPublish == [len |-> 0, stored |-> TRUE]

\* The packet logs are kept until the first fault they record.
TxFaulted == txOverrun \/ txPopped # txExpected

\* A publish that makes room by skipping the oldest queued bytes.
PublishReadPos_SkipOldest(w, r, len) ==
    IF PublishAccepts(len) THEN r ELSE (r + len + 2) % AUDIO_TX_BUFFER_SIZE

\* audio_tx_read_pos after onOpusEncoded: the function only reads it
\* (app.cpp:479-500).
PublishReadPos(w, r, len) == r

onOpusEncoded(data) ==
    LET len         == Len(data)
        packet_size == len + 2
        next_write  == (audio_tx_write_pos + packet_size) % AUDIO_TX_BUFFER_SIZE
        overrun     == packet_size >
                         AUDIO_TX_BUFFER_SIZE - 1
                           - RingUsed(audio_tx_write_pos, audio_tx_read_pos)
    IN
    IF PublishAccepts(len)
    THEN /\ audio_tx_buffer' = RingWrite(audio_tx_buffer, audio_tx_write_pos, data)
         /\ audio_tx_write_pos' = next_write
         /\ audio_tx_read_pos' =
                PublishReadPos(audio_tx_write_pos, audio_tx_read_pos, len)
         /\ txOverrun' = (txOverrun \/ overrun)
         /\ txAccepted' = IF TxFaulted \/ overrun THEN <<>>
                          ELSE Append(txAccepted, data)
         /\ txPublish' = [len |-> len, stored |-> TRUE]
         /\ UNCHANGED <<txPopped, txExpected>>
    ELSE /\ audio_tx_buffer' = RingRejected(audio_tx_buffer, audio_tx_write_pos, data)
         /\ audio_tx_read_pos' =
                PublishReadPos(audio_tx_write_pos, audio_tx_read_pos, len)
         /\ txPublish' = [len |-> len, stored |-> FALSE]
         /\ UNCHANGED <<audio_tx_write_pos, txAccepted,
                        txPopped, txExpected, txOverrun>>

(***************************************************************************)
(* Audio transport sender: broadcastAudioPacket, processAudioTx            *)
(***************************************************************************)
\* A header with the sequence number's high byte first.
AudioWire_BigEndian(seq, data) == <<(seq \div 256) % 256, seq % 256, 0>> \o data

\* Wire payload of an audio notification (app.cpp:520-528).
AudioWire(seq, data) == <<seq % 256, (seq \div 256) % 256, 0>> \o data

\* A sequence number kept in a wider integer: no wrap at 65536.
NextPacketIndex_NoWrap(i) == i + 1

\* audioPacketIndex++ on a uint16_t (app.cpp:532).
NextPacketIndex(i) == (i + 1) % UINT16_MOD

\* broadcastAudioPacket(data): constrains audioPacketIndex and audioNotify.
broadcastAudioPacket(data) ==
    IF ~connected \/ ~audioSubscribed
    THEN UNCHANGED sendVars
    ELSE /\ audioNotify' = [n    |-> 1 - audioNotify.n,
                            seq  |-> audioPacketIndex,
                            wire |-> AudioWire(audioPacketIndex, data)]
         /\ audioPacketIndex' = NextPacketIndex(audioPacketIndex)

\* Length field of the record at the read position (app.cpp:561-562).
RingLenAt(buf, r) == buf[r] + 256 * buf[(r + 1) % AUDIO_TX_BUFFER_SIZE]

\* Payload bytes of the record at the read position (app.cpp:573-575).
RingDataAt(buf, r, len) ==
    [k \in 1..len |-> buf[(r + 2 + (k - 1)) % AUDIO_TX_BUFFER_SIZE]]

\* An entry test that forgets the subscription.
DrainEnabled_ConnectedOnly == connected

\* Entry test of processAudioTx (app.cpp:549-552).
DrainEnabled == connected /\ audioSubscribed

\* processAudioTx, entry (app.cpp:549-556): returns at once unless connected
\* and subscribed.  from/ret are the caller's position and return position.
processAudioTx_enter(from, ret) ==
    /\ pc = from
    /\ pc' = IF DrainEnabled THEN "tx" ELSE ret
    /\ UNCHANGED <<clock, loopNow, bleVars, audioVars, captureVars, photoVars,
                   powerVars, obsVars, taskVars, uiVars>>

\* processAudioTx, one pass of the while loop (app.cpp:559-585).
processAudioTx_step(ret) ==
    /\ pc = "tx"
    /\ txPublish' = NoPublish
    /\ IF audio_tx_read_pos = audio_tx_write_pos
       THEN /\ pc' = ret
            /\ UNCHANGED <<ringVars, sendVars, txAccepted, txPopped, txExpected,
                           txOverrun>>
       ELSE LET len == RingLenAt(audio_tx_buffer, audio_tx_read_pos) IN
            /\ pc' = "tx"
            /\ UNCHANGED <<audio_tx_buffer, audio_tx_write_pos, txOverrun>>
            /\ IF len = 0 \/ len > OPUS_OUTPUT_MAX_BYTES
               THEN /\ audio_tx_read_pos' =
                          (audio_tx_read_pos + 2) % AUDIO_TX_BUFFER_SIZE
                    /\ UNCHANGED <<sendVars, txAccepted, txPopped, txExpected>>
               ELSE LET data == RingDataAt(audio_tx_buffer, audio_tx_read_pos, len) IN
                    /\ audio_tx_read_pos' =
                          (audio_tx_read_pos + 2 + len) % AUDIO_TX_BUFFER_SIZE
                    /\ broadcastAudioPacket(data)
                    /\ IF TxFaulted
                       THEN UNCHANGED <<txAccepted, txPopped, txExpected>>
                       ELSE /\ txPopped' = data
                            /\ txExpected' = IF txAccepted = <<>> THEN NoPacket
                                             ELSE Head(txAccepted)
                            /\ txAccepted' = IF txAccepted = <<>> THEN <<>>
                                             ELSE Tail(txAccepted)
    /\ UNCHANGED <<clock, loopNow, bleVars, pcmVars, captureVars, photoVars,
                   powerVars, obsVars, taskVars, uiVars>>

(***************************************************************************)
(* Sample ring and frame encoder adapter (opus_encoder.cpp)                *)
(***************************************************************************)
\* A push that never discards the oldest sample: the write position runs
\* onto the read position.
PcmPushOne_KeepOldest(s, x) ==
    [buf |-> [s.buf EXCEPT ![s.w] = x],
     w   |-> (s.w + 1) % AUDIO_RING_BUFFER_SAMPLES,
     r   |-> s.r]

\* One pass of the for loop of opus_receive_pcm (opus_encoder.cpp:146-152)
\* on the ring s = [buf, w, r].
PcmPushOne(s, x) ==
    LET next_write == (s.w + 1) % AUDIO_RING_BUFFER_SAMPLES IN
    [buf |-> [s.buf EXCEPT ![s.w] = x],
     w   |-> next_write,
     r   |-> IF next_write = s.r THEN (s.r + 1) % AUDIO_RING_BUFFER_SAMPLES
             ELSE s.r]

RECURSIVE PcmPushAll(_, _)
PcmPushAll(s, data) ==
    IF data = <<>> THEN s
    ELSE PcmPushAll(PcmPushOne(s, Head(data)), Tail(data))

\* ring_buffer_available (opus_encoder.cpp:162-169)
ring_buffer_available(w, r) ==
    IF w >= r THEN w - r ELSE AUDIO_RING_BUFFER_SAMPLES - r + w

\* The n samples a reader gets next, oldest first.
PcmReadable(buf, r, n) ==
    [k \in 1..n |-> buf[(r + (k - 1)) % AUDIO_RING_BUFFER_SAMPLES]]

\* The last n elements of a sequence (all of it when it is shorter).
LastN(seq, n) ==
    IF Len(seq) <= n THEN seq ELSE SubSeq(seq, Len(seq) - n + 1, Len(seq))

\* opus_receive_pcm(data, samples) (opus_encoder.cpp:140-155)
opus_receive_pcm(data) ==
    LET s == PcmPushAll([buf |-> pcm_ring_buffer, w |-> ring_write_pos,
                         r |-> ring_read_pos], data)
    IN
    /\ pcm_ring_buffer' = s.buf
    /\ ring_write_pos' = s.w
    /\ ring_read_pos' = s.r
    /\ pcmSinceRead' = LastN(pcmSinceRead \o data, AUDIO_RING_BUFFER_SAMPLES + 1)
    /\ pcmUnread' = LastN(pcmUnread \o data, AUDIO_RING_BUFFER_SAMPLES - 1)
    /\ UNCHANGED opus_input_buffer

\* The encoder produced nothing (opus_encode_frame returned <= 0).
EncodeFail == <<>>

\* What opus_encode_frame can return for a frame.
EncoderOutcomes(maxLen) == {EncodeFail} \cup PayloadsOfLen(1, maxLen)

\* A pop that moves the read position by one sample only.
PcmReadPosAfterFrame_OneSample(r) == (r + 1) % AUDIO_RING_BUFFER_SAMPLES

\* ring_read_pos after the for loop that copies a frame
\* (opus_encoder.cpp:223-226).
PcmReadPosAfterFrame(r) == (r + OPUS_FRAME_SAMPLES) % AUDIO_RING_BUFFER_SAMPLES

\* opus_process, one pass of the while loop (opus_encoder.cpp:221-235); the
\* encoder is a black box whose result is drawn from `outcomes`.
opus_process_step(ret, outcomes) ==
    /\ pc = "opus"
    /\ IF ring_buffer_available(ring_write_pos, ring_read_pos) >= OPUS_FRAME_SAMPLES
       THEN /\ pc' = "opus"
            /\ opus_input_buffer' =
                  PcmReadable(pcm_ring_buffer, ring_read_pos, OPUS_FRAME_SAMPLES)
            /\ ring_read_pos' = PcmReadPosAfterFrame(ring_read_pos)
            /\ pcmSinceRead' = <<>>
            /\ pcmUnread' = SubSeq(pcmUnread, OPUS_FRAME_SAMPLES + 1, Len(pcmUnread))
            /\ UNCHANGED <<pcm_ring_buffer, ring_write_pos>>
            /\ \E out \in outcomes :
                  IF out = EncodeFail THEN UNCHANGED <<ringVars, ringObs>>
                  ELSE onOpusEncoded(out)
       ELSE /\ pc' = ret
            /\ UNCHANGED <<pcmVars, ringVars, ringObs>>
    /\ UNCHANGED <<clock, loopNow, bleVars, sendVars, captureVars, photoVars,
                   powerVars, obsVars, taskVars, uiVars>>

\* mic_process (mic.cpp:163-195): one i2s_read of at most MIC_BUFFER_SAMPLES
\* samples (none on a timeout), handed to onMicData -> opus_receive_pcm
\* (app.cpp:454-458).
mic_process(from, to, reads) ==
    /\ pc = from
    /\ pc' = to
    /\ \E data \in reads :
          IF data = <<>> THEN UNCHANGED pcmVars ELSE opus_receive_pcm(data)
    /\ UNCHANGED <<clock, loopNow, bleVars, ringVars, ringObs, sendVars,
                   captureVars, photoVars, powerVars, obsVars, taskVars, uiVars>>

(***************************************************************************)
(* BLE callbacks (run in the BLE task, between any two steps of the loop)  *)
(***************************************************************************)
\* ServerHandler::onConnect (app.cpp:605-613)
onConnect ==
    /\ ~connected
    /\ connected' = TRUE
    /\ audioSubscribed' = FALSE
    /\ lastActivity' = clock
    /\ UNCHANGED <<clock, loopVars, audioVars, captureVars, photoVars, cpuVars,
                   obsVars, taskVars, uiVars>>

\* A disconnect that leaves the subscription as it was.
onDisconnect_KeepSubscription ==
    /\ connected
    /\ connected' = FALSE
    /\ UNCHANGED <<clock, loopVars, audioSubscribed, audioVars, captureVars,
                   photoVars, powerVars, obsVars, taskVars, uiVars>>

\* ServerHandler::onDisconnect (app.cpp:621-627)
onDisconnect ==
    /\ connected
    /\ connected' = FALSE
    /\ audioSubscribed' = FALSE
    /\ UNCHANGED <<clock, loopVars, audioVars, captureVars, photoVars, powerVars,
                   obsVars, taskVars, uiVars>>

\* AudioCCCDCallback::onWrite (app.cpp:643-656); notifyBit is value[0] & 0x01.
AudioCCCD_onWrite(notifyBit) ==
    /\ connected
    /\ audioSubscribed' = notifyBit
    /\ UNCHANGED <<clock, loopVars, connected, audioVars, captureVars, photoVars,
                   powerVars, obsVars, taskVars, uiVars>>

\* PhotoControlCallback::onWrite (app.cpp:705-714) and handlePhotoControl
\* (app.cpp:1077-1103); v is the int8_t command.
PhotoControl_onWrite(v) ==
    /\ connected
    /\ lastActivity' = clock
    /\ IF v = -1
       THEN /\ isCapturingPhotos' = TRUE
            /\ captureInterval' = 0
            /\ UNCHANGED lastCaptureTime
       ELSE IF v = 0
       THEN /\ isCapturingPhotos' = FALSE
            /\ captureInterval' = 0
            /\ UNCHANGED lastCaptureTime
       ELSE IF v >= 5 /\ v <= 300
       THEN /\ captureInterval' = PHOTO_CAPTURE_INTERVAL_MS
            /\ isCapturingPhotos' = TRUE
            /\ lastCaptureTime' = USub(clock, PHOTO_CAPTURE_INTERVAL_MS)
       ELSE UNCHANGED captureVars
    /\ UNCHANGED <<clock, loopVars, bleVars, audioVars, photoVars, cpuVars,
                   obsVars, taskVars, uiVars>>

(***************************************************************************)
(* Power management (app.cpp:333-401)                                      *)
(***************************************************************************)
\* An enterPowerSave without its guard: every call switches the mode.
enterPowerSave_Toggle ==
    /\ cpuFreq' = IF powerSaveMode THEN "normal" ELSE "min"
    /\ powerSaveMode' = ~powerSaveMode

\* enterPowerSave (app.cpp:333-339)
enterPowerSave ==
    IF ~powerSaveMode
    THEN /\ cpuFreq' = "min"
         /\ powerSaveMode' = TRUE
    ELSE UNCHANGED cpuVars

\* An exitPowerSave that restores the clock but keeps the mode flag.
exitPowerSave_KeepFlag ==
    /\ cpuFreq' = "normal"
    /\ UNCHANGED powerSaveMode

\* exitPowerSave (app.cpp:347-353)
exitPowerSave ==
    IF powerSaveMode
    THEN /\ cpuFreq' = "normal"
         /\ powerSaveMode' = FALSE
    ELSE UNCHANGED cpuVars

\* bool lightSleepEnabled = true (app.cpp:55), never written.
lightSleepEnabled == TRUE

\* Time until the next scheduled capture as enableLightSleep computes it
\* (app.cpp:381-389).
TimeUntilNextPhoto(now) ==
    IF isCapturingPhotos /\ captureInterval > 0
          /\ USub(now, lastCaptureTime) < captureInterval
    THEN captureInterval - USub(now, lastCaptureTime)
    ELSE 0

\* A sleep timer without the 15 s cap.
SleepTime_NoCap(timeUntilNextPhoto) == timeUntilNextPhoto - LIGHT_SLEEP_MARGIN_MS

\* Programmed timer of the light sleep (app.cpp:394-396).
SleepTime(timeUntilNextPhoto) ==
    IF timeUntilNextPhoto - LIGHT_SLEEP_MARGIN_MS > LIGHT_SLEEP_MAX_MS
    THEN LIGHT_SLEEP_MAX_MS
    ELSE timeUntilNextPhoto - LIGHT_SLEEP_MARGIN_MS

\* Guards that leave the quiet window out.
SleepEligible_NoQuietWindow(now) ==
    /\ lightSleepEnabled
    /\ connected
    /\ ~photoDataUploading

\* Guards of enableLightSleep before the headroom test (app.cpp:370-379).
SleepEligible(now) ==
    /\ lightSleepEnabled
    /\ connected
    /\ ~photoDataUploading
    /\ ~(USub(now, lastActivity) < LIGHT_SLEEP_QUIET_MS)

\* Observer of enableLightSleep: whether it slept, when it was called, the
\* programmed timer, the wake-up time, and the capture schedule it found.
SleepObserved(slept, at, timer, wake) ==
    [slept |-> slept, at |-> at, timer |-> timer, wake |-> wake,
     capturing |-> isCapturingPhotos, interval |-> captureInterval,
     lastCapture |-> lastCaptureTime]

\* enableLightSleep (app.cpp:367-401).  esp_light_sleep_start returns when the
\* timer fires or, earlier, on a BLE or GPIO event: after `woke` ms, one of
\* the programmed time and the values of `early` below it.
enableLightSleep(early) ==
    LET now   == clock
        tunp  == TimeUntilNextPhoto(now)
        sleep == SleepEligible(now) /\ tunp > LIGHT_SLEEP_MIN_HEADROOM_MS
    IN
    IF sleep
    THEN \E woke \in {SleepTime(tunp)} \cup {e \in early : e < SleepTime(tunp)} :
            /\ clock' = clock + woke
            /\ lastActivity' = clock + woke
            /\ sleepObs' = SleepObserved(TRUE, now, SleepTime(tunp), clock + woke)
    ELSE /\ UNCHANGED <<clock, lastActivity>>
         /\ sleepObs' = SleepObserved(FALSE, now, 0, now)

(***************************************************************************)
(* Button and LED (app.cpp:167-321)                                        *)
(***************************************************************************)
\* A debounce test that never ignores an edge.
InDebounceWindow_Never(now, last) == FALSE

\* Debounce test of handleButton (app.cpp:283, 302): TRUE = ignore the edge.
InDebounceWindow(now, last) == USub(now, last) < DEBOUNCE_MS

\* A long-press test with half the threshold.
IsLongPress_Early(now, pressTime) == USub(now, pressTime) >= LONG_PRESS_MS \div 2

\* Long-press test (app.cpp:293-294).
IsLongPress(now, pressTime) == USub(now, pressTime) >= LONG_PRESS_MS

\* A short-press test that forgets the long-press flag.
IsShortPress_AnyRelease(fired, now, pressTime) == USub(now, pressTime) >= DEBOUNCE_MS

\* Short-press test on an accepted release (app.cpp:310).
IsShortPress(fired, now, pressTime) == ~fired /\ USub(now, pressTime) >= DEBOUNCE_MS

\* An accepted transition at time `now` enters the observer: `last` and
\* `prev` are the times of the last two accepted transitions, `acc` and `acc0`
\* count the transitions accepted since the last physical edge and since the
\* edge before it, `close` tells that these two edges were less than
\* DEBOUNCE_MS apart.
Accepted(obs, now, fired) ==
    [obs EXCEPT !.last = now, !.prev = obs.last, !.fired = fired,
                !.acc = obs.acc + 1, !.acc0 = obs.acc0 + 1]

\* A physical edge at time `now` enters the observer.
EdgeObserved(obs, now) ==
    [obs EXCEPT !.edge = now, !.acc = 0, !.acc0 = obs.acc,
                !.close = (obs.edge # -1 /\ USub(now, obs.edge) < DEBOUNCE_MS)]

\* A release that calls the shutdown off.
LedAfterRelease_Abort(mode) == "LED_NORMAL_OPERATION"

\* ledMode after an accepted release: the release branch does not write it
\* (app.cpp:300-317).
LedAfterRelease(mode) == mode

\* handleButton (app.cpp:271-321); millis() is read once, on entry.
handleButton ==
    LET now == clock IN
    IF pin /\ ~buttonDown
    THEN IF InDebounceWindow(now, lastDebounceTime)
         THEN UNCHANGED <<buttonVars, ledMode, powerVars>>
         ELSE /\ buttonPressTime' = now
              /\ buttonDown' = TRUE
              /\ longPressTriggered' = FALSE
              /\ lastDebounceTime' = now
              /\ buttonPressed' = FALSE
              /\ buttonObs' = Accepted(buttonObs, now, FALSE)
              /\ UNCHANGED <<ledMode, powerVars>>
    ELSE IF pin /\ buttonDown /\ ~longPressTriggered
    THEN /\ IF IsLongPress(now, buttonPressTime)
            THEN /\ longPressTriggered' = TRUE
                 /\ ledMode' = "LED_POWER_OFF_SEQUENCE"
                 /\ buttonObs' = [buttonObs EXCEPT !.fired = TRUE]
            ELSE UNCHANGED <<longPressTriggered, ledMode, buttonObs>>
         /\ buttonPressed' = FALSE
         /\ UNCHANGED <<buttonPressTime, lastDebounceTime, buttonDown, powerVars>>
    ELSE IF ~pin /\ buttonDown
    THEN IF InDebounceWindow(now, lastDebounceTime)
         THEN UNCHANGED <<buttonVars, ledMode, powerVars>>
         ELSE /\ buttonDown' = FALSE
              /\ lastDebounceTime' = now
              /\ IF IsShortPress(longPressTriggered, now, buttonPressTime)
                 THEN /\ lastActivity' = now
                      /\ exitPowerSave
                 ELSE UNCHANGED powerVars
              /\ longPressTriggered' = FALSE
              /\ buttonPressed' = FALSE
              /\ buttonObs' = Accepted(buttonObs, now, buttonObs.fired)
              /\ ledMode' = LedAfterRelease(ledMode)
              /\ UNCHANGED buttonPressTime
    ELSE /\ buttonPressed' = FALSE
         /\ UNCHANGED <<buttonPressTime, lastDebounceTime, buttonDown,
                        longPressTriggered, buttonObs, ledMode, powerVars>>

\* buttonISR (app.cpp:167-170), raised by an edge on the button pin
\* (attachInterrupt ... CHANGE, app.cpp:1207); level TRUE = pressed.
buttonISR(level) ==
    /\ pin # level
    /\ pin' = level
    /\ buttonPressed' = TRUE
    /\ buttonObs' = EdgeObserved(buttonObs, clock)
    /\ UNCHANGED <<clock, loopVars, bleVars, audioVars, captureVars, photoVars,
                   powerVars, obsVars, taskVars, buttonPressTime, lastDebounceTime,
                   buttonDown, longPressTriggered, ledVars>>

\* A power-off sequence that ends at its first call.
PowerOffDone_AtOnce(now, start) == TRUE

\* End of the power-off blink sequence (app.cpp:213, 216-220).
PowerOffDone(now, start) == ~(USub(now, start) < POWER_OFF_SEQUENCE_MS)

\* updateLED (app.cpp:186-235), state part; TRUE in `off` = shutdownDevice ran.
\* It constrains ledMode', bootStartTime', powerOffStartTime'.
updateLED(off) ==
    LET now == clock IN
    IF ledMode = "LED_BOOT_SEQUENCE"
    THEN LET start == IF bootStartTime = 0 THEN now ELSE bootStartTime IN
         /\ off = FALSE
         /\ UNCHANGED powerOffStartTime
         /\ IF USub(now, start) < BOOT_SEQUENCE_MS
            THEN /\ bootStartTime' = start
                 /\ UNCHANGED ledMode
            ELSE /\ ledMode' = "LED_NORMAL_OPERATION"
                 /\ bootStartTime' = 0
    ELSE IF ledMode = "LED_POWER_OFF_SEQUENCE"
    THEN LET start == IF powerOffStartTime = 0 THEN now ELSE powerOffStartTime IN
         /\ powerOffStartTime' = start
         /\ UNCHANGED <<ledMode, bootStartTime>>
         /\ off = PowerOffDone(now, start)
    ELSE /\ off = FALSE
         /\ UNCHANGED ledVars

(***************************************************************************)
(* loop_app (app.cpp:1300-1469), one action per numbered step.  `to` is    *)
(* the position of the step that runs next.                                *)
(***************************************************************************)
NoFb == [len |-> -1]

\* FIXED_IMAGE_ORIENTATION (config.h; app.cpp:1053-1054: 180 degrees)
FIXED_IMAGE_ORIENTATION == "ORIENTATION_180_DEGREES"

\* unsigned long now = millis() (app.cpp:1302)
Loop_start(to) ==
    /\ pc = "start"
    /\ pc' = to
    /\ loopNow' = clock
    /\ photoObs' = [photoObs EXCEPT !.burst = 0]
    /\ UNCHANGED <<clock, bleVars, audioVars, captureVars, photoDataUploading,
                   fb, sent_photo_bytes, sent_photo_frames,
                   photo_chunks_this_loop, photoLog, powerVars, obsVars, taskVars, uiVars>>

\* 1. handleButton() (app.cpp:1307)
Loop_button(to) ==
    /\ pc = "button"
    /\ pc' = to
    /\ handleButton
    /\ UNCHANGED <<clock, loopNow, bleVars, audioVars, captureVars, photoVars,
                   obsVars, taskVars, pin, bootStartTime, powerOffStartTime>>

\* 2. updateLED() (app.cpp:1312); shutdownDevice (app.cpp:415-438) stops
\* capturing and enters deep sleep, which ends the loop.
Loop_led(to) ==
    /\ pc = "led"
    /\ \E off \in BOOLEAN :
          /\ updateLED(off)
          /\ pc' = IF off THEN "off" ELSE to
          /\ isCapturingPhotos' = IF off THEN FALSE ELSE isCapturingPhotos
    /\ UNCHANGED <<clock, loopNow, bleVars, audioVars, captureInterval,
                   lastCaptureTime, photoVars, powerVars, obsVars, taskVars, pin, buttonVars>>

\* Observer of the power-mode check: `n` counts the mode switches and `evals`
\* (up to 2) the checks made since connected, photoDataUploading, lastActivity
\* or the mode were last changed by anything but the check itself.
PowerObserved(obs, modeAfter, activityAfter) ==
    LET same    == /\ obs.conn = connected
                   /\ obs.upl = photoDataUploading
                   /\ obs.act = lastActivity
                   /\ obs.mode = powerSaveMode
        toggled == IF modeAfter # powerSaveMode THEN 1 ELSE 0
    IN
    [n     |-> IF same THEN obs.n + toggled ELSE toggled,
     evals |-> IF same /\ obs.evals >= 1 THEN 2 ELSE 1,
     conn  |-> connected,
     upl   |-> photoDataUploading,
     act   |-> activityAfter,
     mode  |-> modeAfter]

\* 6. power-mode check (app.cpp:1338-1346)
Loop_power(to) ==
    /\ pc = "power"
    /\ pc' = to
    /\ IF ~connected /\ ~photoDataUploading
             /\ USub(loopNow, lastActivity) > IDLE_THRESHOLD_MS
       THEN /\ enterPowerSave
            /\ UNCHANGED lastActivity
       ELSE IF connected \/ photoDataUploading
       THEN /\ exitPowerSave
            /\ lastActivity' = loopNow
       ELSE UNCHANGED powerVars
    /\ powerObs' = PowerObserved(powerObs, powerSaveMode', lastActivity')
    /\ UNCHANGED <<clock, loopNow, bleVars, audioVars, captureVars, photoVars,
                   sleepObs, taskVars, uiVars>>

\* A capture test that forgets the session in progress.
CaptureAllowed_AnyTime == isCapturingPhotos /\ connected

\* Outer test of the capture check (app.cpp:1367).
CaptureAllowed == isCapturingPhotos /\ ~photoDataUploading /\ connected

\* Capture-interval test (app.cpp:1370).
CaptureDue(now) ==
    captureInterval = 0 \/ USub(now, lastCaptureTime) >= captureInterval

\* Frame buffers out of the camera driver after take_photo's release of a
\* buffer still held (app.cpp:1036-1040).
FbReleased(out, held) == IF held # NoFb THEN out - 1 ELSE out

\* A failed capture that counts as the capture of this interval.
CaptureTimeAfterFailure_Now(last, now) == now

\* lastCaptureTime after a take_photo that returned false: the assignments
\* of app.cpp:1376-1381 are skipped.
CaptureTimeAfterFailure(last, now) == last

\* 8. capture-interval check (app.cpp:1368-1384) with take_photo
\* (app.cpp:1033-1059); the camera returns no frame or one of `lens` bytes.
\* photoObs.failed tells, until the chunk step, that take_photo failed.
Loop_capture(to, lens) ==
    /\ pc = "capture"
    /\ pc' = to
    /\ IF CaptureAllowed /\ CaptureDue(loopNow)
       THEN /\ isCapturingPhotos' = IF captureInterval = 0 THEN FALSE
                                    ELSE isCapturingPhotos
            /\ UNCHANGED captureInterval
            /\ \E got \in {-1} \cup lens :
                  IF got = -1
                  THEN /\ fb' = NoFb
                       /\ lastCaptureTime' =
                              CaptureTimeAfterFailure(lastCaptureTime, loopNow)
                       /\ photoObs' = [photoObs EXCEPT !.failed = TRUE,
                                          !.out = FbReleased(photoObs.out, fb)]
                       /\ UNCHANGED <<photoDataUploading,
                                      sent_photo_bytes, sent_photo_frames,
                                      photoLog, lastActivity>>
                  ELSE /\ fb' = [len |-> got]
                       /\ lastActivity' = clock
                       /\ photoDataUploading' = TRUE
                       /\ sent_photo_bytes' = 0
                       /\ sent_photo_frames' = 0
                       /\ lastCaptureTime' = loopNow
                       /\ photoLog' = <<>>
                       /\ photoObs' = [photoObs EXCEPT !.len = got,
                                          !.out = FbReleased(photoObs.out, fb) + 1]
       ELSE UNCHANGED <<captureVars, photoDataUploading, fb, sent_photo_bytes,
                        sent_photo_frames, photoLog, photoObs, lastActivity>>
    /\ UNCHANGED <<clock, loopNow, bleVars, audioVars, photo_chunks_this_loop,
                   cpuVars, obsVars, taskVars, uiVars>>

\* One cap for every chunk: the first chunk ignores its extra header byte.
PhotoChunkCap_Same(frames) == CHUNK_MAX

\* Payload cap of the next data chunk (app.cpp:1407, 1414).
PhotoChunkCap(frames) == IF frames = 0 THEN FIRST_CHUNK_MAX ELSE CHUNK_MAX

\* bytes_to_copy (app.cpp:1407, 1414)
BytesToCopy(remaining, frames) ==
    IF remaining > PhotoChunkCap(frames) THEN PhotoChunkCap(frames) ELSE remaining

\* A header that carries only the low byte of the frame index.
PhotoHeader_LowByteOnly(frames) ==
    IF frames = 0 THEN <<0, 0, FIXED_IMAGE_ORIENTATION>>
    ELSE <<frames % 256, 0>>

\* Header of a data chunk (app.cpp:1404-1406, 1412-1413).
PhotoHeader(frames) ==
    IF frames = 0 THEN <<0, 0, FIXED_IMAGE_ORIENTATION>>
    ELSE <<frames % 256, (frames \div 256) % 256>>

\* A counter that counts every chunk-transfer step, pending audio or not.
PhotoCounterNext_Always(chunks, audioPending) == chunks + 1

\* photo_chunks_this_loop after the priority test (app.cpp:1392-1396).
PhotoCounterNext(chunks, audioPending) == IF audioPending THEN 0 ELSE chunks + 1

\* Pending audio as the photo step tests it (app.cpp:1392).
AudioPending == audioSubscribed /\ audio_tx_read_pos # audio_tx_write_pos

\* A skipped chunk step that keeps the counter.
PhotoCounterIdle_Keep(chunks) == chunks

\* photo_chunks_this_loop after a chunk step that sends nothing
\* (app.cpp:1446-1448).
PhotoCounterIdle(chunks) == 0

\* A terminator branch that keeps the frame buffer.
FbAfterTerminator_Keep(held) == held

\* fb after the terminator branch: esp_camera_fb_return(fb); fb = nullptr
\* (app.cpp:1442-1443).
FbAfterTerminator(held) == NoFb

\* A chunk step that notifies three times.
PhotoBurstNext_Three(k) == k + 3

\* Photo notifications of the iteration after a chunk step that emits: each
\* branch of the step calls notify() once (app.cpp:1418, 1438).
PhotoBurstNext(k) == k + 1

\* A chunk step that is open for three iterations in a row.
PhotoStepOpen_Three(chunks) == chunks < 3

\* Counter test of the chunk step (app.cpp:1390).
PhotoStepOpen(chunks) == chunks < 2

\* 9. photo chunk transfer (app.cpp:1389-1449); photoObs.burst counts the
\* photo notifications since the iteration began.
Loop_photo(to) ==
    /\ pc = "photo"
    /\ pc' = to
    /\ IF photoDataUploading /\ fb # NoFb /\ PhotoStepOpen(photo_chunks_this_loop)
       THEN LET remaining == fb.len - sent_photo_bytes
                n         == BytesToCopy(remaining, sent_photo_frames)
            IN
            /\ photoObs' = [photoObs EXCEPT !.emitted = TRUE,
                                            !.failed = FALSE,
                                            !.audioPending = AudioPending,
                                            !.burst = PhotoBurstNext(photoObs.burst),
                                            !.out = IF remaining > 0 THEN @ ELSE @ - 1]
            /\ IF remaining > 0
               THEN /\ photoLog' = Append(photoLog,
                                     [kind |-> "data",
                                      hdr  |-> PhotoHeader(sent_photo_frames),
                                      off  |-> sent_photo_bytes,
                                      size |-> n])
                    /\ sent_photo_bytes' = sent_photo_bytes + n
                    /\ sent_photo_frames' = sent_photo_frames + 1
                    /\ lastActivity' = loopNow
                    /\ photo_chunks_this_loop' =
                          PhotoCounterNext(photo_chunks_this_loop, AudioPending)
                    /\ UNCHANGED <<photoDataUploading, fb>>
               ELSE /\ photoLog' = Append(photoLog,
                                     [kind |-> "end", hdr |-> <<255, 255>>,
                                      off |-> sent_photo_bytes, size |-> 0])
                    /\ photoDataUploading' = FALSE
                    /\ fb' = FbAfterTerminator(fb)
                    /\ photo_chunks_this_loop' = 0
                    /\ UNCHANGED <<sent_photo_bytes, sent_photo_frames, lastActivity>>
       ELSE /\ photo_chunks_this_loop' = PhotoCounterIdle(photo_chunks_this_loop)
            /\ photoObs' = [photoObs EXCEPT !.emitted = FALSE,
                                            !.failed = FALSE,
                                            !.audioPending = AudioPending]
            /\ UNCHANGED <<photoDataUploading, fb, sent_photo_bytes,
                           sent_photo_frames, photoLog, lastActivity>>
    /\ UNCHANGED <<clock, loopNow, bleVars, audioVars, captureVars, cpuVars,
                   obsVars, taskVars, uiVars>>

\* 10. opportunistic light sleep (app.cpp:1455-1457)
Loop_sleep(to, early) ==
    /\ pc = "sleep"
    /\ pc' = to
    /\ IF ~photoDataUploading /\ ~audioSubscribed
       THEN enableLightSleep(early)
       ELSE UNCHANGED <<clock, lastActivity, sleepObs>>
    /\ UNCHANGED <<loopNow, bleVars, audioVars, captureVars, photoVars, cpuVars,
                   powerObs, taskVars, uiVars>>

\* Pacing delay at the end of the iteration (app.cpp:1462-1468); the time it
\* takes passes through Tick.
Loop_delay ==
    /\ pc = "delay"
    /\ pc' = "start"
    /\ UNCHANGED <<clock, loopNow, bleVars, audioVars, captureVars, photoVars,
                   powerVars, obsVars, taskVars, uiVars>>

\* d milliseconds pass (a delay(), a blocking read, the run time of a step),
\* up to the horizon of the exploration.
Tick(d, horizon) ==
    /\ clock + d <= horizon
    /\ clock' = clock + d
    /\ UNCHANGED <<loopVars, bleVars, audioVars, captureVars, photoVars,
                   powerVars, obsVars, taskVars, uiVars>>

(***************************************************************************)
(* Initial state: the globals as setup_app leaves them (app.cpp:1192-1277) *)
(***************************************************************************)
InitLink ==
    /\ connected = FALSE
    /\ audioSubscribed = FALSE

InitAudio ==
    /\ pcm_ring_buffer = [i \in 0..(AUDIO_RING_BUFFER_SAMPLES - 1) |-> 0]
    /\ ring_write_pos = 0
    /\ ring_read_pos = 0
    /\ opus_input_buffer = [k \in 1..OPUS_FRAME_SAMPLES |-> 0]
    /\ pcmSinceRead = <<>>
    /\ pcmUnread = <<>>
    /\ audio_tx_buffer = [i \in 0..(AUDIO_TX_BUFFER_SIZE - 1) |-> 0]
    /\ audio_tx_write_pos = 0
    /\ audio_tx_read_pos = 0
    /\ audioNotify = [n |-> 0, seq |-> -1, wire |-> <<>>]
    /\ txAccepted = <<>>
    /\ txPopped = NoPacket
    /\ txExpected = NoPacket
    /\ txOverrun = FALSE
    /\ txPublish = NoPublish

InitPhoto ==
    /\ isCapturingPhotos = TRUE
    /\ captureInterval = PHOTO_CAPTURE_INTERVAL_MS
    /\ lastCaptureTime = USub(0, PHOTO_CAPTURE_INTERVAL_MS)
    /\ photoDataUploading = FALSE
    /\ fb = NoFb
    /\ sent_photo_bytes = 0
    /\ sent_photo_frames = 0
    /\ photo_chunks_this_loop = 0
    /\ photoLog = <<>>
    /\ photoObs = [emitted |-> FALSE, audioPending |-> FALSE, len |-> -1,
                   burst |-> 0, failed |-> FALSE, out |-> 0]

InitPower ==
    /\ lastActivity = 0
    /\ powerSaveMode = FALSE
    /\ cpuFreq = "normal"
    /\ powerObs = [n |-> 0, evals |-> 0, conn |-> FALSE, upl |-> FALSE,
                   act |-> 0, mode |-> FALSE]
    /\ sleepObs = SleepObserved(FALSE, 0, 0, 0)

InitUi ==
    /\ pin = FALSE
    /\ buttonPressed = FALSE
    /\ buttonPressTime = 0
    /\ lastDebounceTime = 0
    /\ buttonDown = FALSE
    /\ longPressTriggered = FALSE
    /\ ledMode = "LED_BOOT_SEQUENCE"
    /\ bootStartTime = 0
    /\ powerOffStartTime = 0
    /\ buttonObs = [last |-> -1, prev |-> -1, fired |-> FALSE,
                    edge |-> -1, close |-> FALSE, acc |-> 0, acc0 |-> 0]

\* No photo-control command has returned yet.
NoCommand == -128

\* The BLE task is outside PhotoControlCallback::onWrite.
BleIdle == [cmd |-> NoCommand, at |-> 0]

\* The BLE task is in no callback; the globals of ota.cpp as their
\* initialisers leave them (ota.cpp:36-52), no ota_task exists.
InitTasks ==
    /\ blePc = BleIdle
    /\ photoCmd = NoCommand
    /\ otaStatus = "OTA_STATUS_IDLE"
    /\ otaProgress = 0
    /\ otaCancelled = FALSE
    /\ wifiSSID = [i \in 0..WIFI_MAX_SSID_LEN |-> 0]
    /\ wifiPassword = [i \in 0..WIFI_MAX_PASS_LEN |-> 0]
    /\ wifiCredentialsSet = FALSE
    /\ firmwareURL = [i \in 0..OTA_MAX_URL_LEN |-> 0]
    /\ firmwareURLSet = FALSE
    /\ otaTaskRunning = FALSE
    /\ otaTasks = <<>>
    /\ otaObs = [cancel |-> FALSE, reboot |-> FALSE, said |-> "",
                 cmd |-> -1, rejected |-> FALSE, n |-> 0]

\* The state at the first call of loop_app, `at` being the first position.
InitAt(at) ==
    /\ clock = 0
    /\ pc = at
    /\ loopNow = 0
    /\ InitLink
    /\ InitAudio
    /\ audioPacketIndex = 0
    /\ InitPhoto
    /\ InitPower
    /\ InitUi
    /\ InitTasks

(***************************************************************************)
(* SpecRing: the packet ring between the encoder callback and the sender.  *)
(* The encoder callback and processAudioTx run in the loop task, so a      *)
(* publish never falls inside a drain; the BLE callbacks fall anywhere.    *)
(***************************************************************************)
\* The encoder keeps producing while the sequence number is near 0 or near
\* the 16-bit wrap.
EncoderActive ==
    \/ audioPacketIndex < MaxSent
    \/ audioPacketIndex >= UINT16_MOD - MaxSent

\* opus_process hands one encoded frame to onOpusEncoded
\* (opus_encoder.cpp:229-234); from/to are the loop task's positions.
Publish(from, to, payloads) ==
    /\ pc = from
    /\ pc' = to
    /\ EncoderActive
    /\ \E data \in payloads : onOpusEncoded(data)
    /\ UNCHANGED <<clock, loopNow, bleVars, pcmVars, sendVars, captureVars,
                   photoVars, powerVars, obsVars, taskVars, uiVars>>

NextRing ==
    \/ Publish("idle", "idle", Payloads)
    \/ processAudioTx_enter("idle", "idle")
    \/ processAudioTx_step("idle")
    \/ onConnect
    \/ onDisconnect
    \/ \E b \in BOOLEAN : AudioCCCD_onWrite(b)

SpecRing == InitAt("idle") /\ [][NextRing]_vars

\* C1: every record processAudioTx pops and hands to broadcastAudioPacket is
\* the complete payload of the oldest accepted publish not yet popped, and an
\* accepted publish never writes into unread bytes nor moves the write
\* position onto or past the read position.
C1_PacketAtomicity == ~txOverrun /\ txPopped = txExpected

(***************************************************************************)
(* SpecSeq: the sender's sequence number, started near 0 and near the wrap *)
(***************************************************************************)
InitSeq ==
    /\ clock = 0
    /\ pc = "idle"
    /\ loopNow = 0
    /\ InitLink
    /\ InitAudio
    /\ audioPacketIndex \in {0, UINT16_MOD - MaxSent}
    /\ InitPhoto
    /\ InitPower
    /\ InitUi
    /\ InitTasks

NextSeq ==
    \/ Publish("idle", "idle", PayloadsOfLen(1, 1))
    \/ processAudioTx_enter("idle", "idle")
    \/ processAudioTx_step("idle")
    \/ onConnect
    \/ onDisconnect
    \/ \E b \in BOOLEAN : AudioCCCD_onWrite(b)

SpecSeq == InitSeq /\ [][NextSeq]_vars

\* C6: audioPacketIndex changes only in a step that notifies an audio packet;
\* that packet carries the old index, the index then advances by 1 modulo
\* 65536, and the packet's number follows the previous packet's number.
C6_SequenceNumbering ==
    [][ /\ (audioNotify' # audioNotify) =>
              /\ audioNotify'.seq = audioPacketIndex
              /\ audioPacketIndex' = (audioPacketIndex + 1) % 65536
              /\ (audioNotify.seq # -1 =>
                     audioNotify'.seq = (audioNotify.seq + 1) % 65536)
        /\ (audioNotify' = audioNotify) => (audioPacketIndex' = audioPacketIndex)
      ]_vars

\* A packet numbered 65535 was notified and the index wrapped to 0.
C6_Witness == audioNotify.seq = 65535 /\ audioPacketIndex = 0

(***************************************************************************)
(* SpecPcm: the sample ring between mic_process and opus_process           *)
(***************************************************************************)
SampleValues == {0, 1}

\* What one i2s_read can deliver: 1 .. MIC_BUFFER_SAMPLES samples.
MicReads == UNION {[1..n -> SampleValues] : n \in 1..MIC_BUFFER_SAMPLES}

\* The loop task calls opus_process (opus_encoder.cpp:214-218).
opus_process_call(from) ==
    /\ pc = from
    /\ pc' = "opus"
    /\ UNCHANGED <<clock, loopNow, bleVars, audioVars, captureVars, photoVars,
                   powerVars, obsVars, taskVars, uiVars>>

NextPcm ==
    \/ mic_process("idle", "idle", MicReads)
    \/ opus_process_call("idle")
    \/ opus_process_step("idle", EncoderOutcomes(1))

SpecPcm == InitAt("idle") /\ [][NextPcm]_vars

PcmAvailable == ring_buffer_available(ring_write_pos, ring_read_pos)

\* More samples than the ring has cells were pushed since the last pop.
PcmOverfilled == Len(pcmSinceRead) > AUDIO_RING_BUFFER_SAMPLES

\* C2 (as claimed): after more than AUDIO_RING_BUFFER_SAMPLES pushes without a
\* read, AUDIO_RING_BUFFER_SAMPLES samples are readable and they are the most
\* recently pushed ones, oldest first.
C2_SampleOverwrite ==
    PcmOverfilled =>
        /\ PcmAvailable = AUDIO_RING_BUFFER_SAMPLES
        /\ PcmReadable(pcm_ring_buffer, ring_read_pos, AUDIO_RING_BUFFER_SAMPLES)
              = LastN(pcmSinceRead, AUDIO_RING_BUFFER_SAMPLES)

\* C2 (amended): after more than AUDIO_RING_BUFFER_SAMPLES pushes without a
\* read, exactly AUDIO_RING_BUFFER_SAMPLES - 1 samples are readable and they
\* are the most recently pushed ones, oldest first.
C2_SampleOverwrite_Amended ==
    PcmOverfilled =>
        /\ PcmAvailable = AUDIO_RING_BUFFER_SAMPLES - 1
        /\ PcmReadable(pcm_ring_buffer, ring_read_pos, AUDIO_RING_BUFFER_SAMPLES - 1)
              = LastN(pcmSinceRead, AUDIO_RING_BUFFER_SAMPLES - 1)

\* The ring was overfilled with samples of both values.
C2_Witness ==
    /\ PcmOverfilled
    /\ \E i, j \in 1..Len(pcmSinceRead) : pcmSinceRead[i] # pcmSinceRead[j]

(***************************************************************************)
(* SpecPhoto: capture check and chunk transfer of loop_app, with the link  *)
(* and photo-control callbacks falling between the steps                   *)
(***************************************************************************)
ImageLens == 0..MaxImageLen

PhotoCommands == {-1, 0, 5}

NextPhoto ==
    \/ Loop_start("capture")
    \/ Loop_capture("photo", ImageLens)
    \/ Loop_photo("start")
    \/ onConnect
    \/ onDisconnect
    \/ \E v \in PhotoCommands : PhotoControl_onWrite(v)

SpecPhoto == InitAt("start") /\ [][NextPhoto]_vars

\* Payload bytes of the first k notifications of the session.
RECURSIVE PhotoBytes(_, _)
PhotoBytes(log, k) == IF k = 0 THEN 0 ELSE PhotoBytes(log, k - 1) + log[k].size

PhotoTerminators == {i \in 1..Len(photoLog) : photoLog[i].kind = "end"}

\* A session was started and its upload has ended.
PhotoSessionDone == photoObs.len # -1 /\ ~photoDataUploading

\* C3: the chunks of a session of an image of L bytes: the first data chunk
\* has at most 199 payload bytes and carries the orientation byte, every later
\* one at most 200 and a 2-byte header; data chunks are contiguous; the
\* terminator [0xFF,0xFF] comes once, last, when the payload sizes sum to L;
\* L = 450 gives 199, 200, 51, terminator.
C3_PhotoChunks ==
    /\ \A i \in 1..Len(photoLog) :
          LET c == photoLog[i] IN
          IF c.kind = "data"
          THEN /\ c.off = PhotoBytes(photoLog, i - 1)
               /\ c.off + c.size <= photoObs.len
               /\ IF i = 1
                  THEN /\ c.size <= 199
                       /\ Len(c.hdr) = 3
                       /\ c.hdr[3] = FIXED_IMAGE_ORIENTATION
                  ELSE /\ c.size <= 200
                       /\ Len(c.hdr) = 2
          ELSE /\ i = Len(photoLog)
               /\ c.hdr = <<255, 255>>
               /\ c.size = 0
               /\ PhotoBytes(photoLog, i - 1) = photoObs.len
               /\ ~photoDataUploading
    /\ PhotoSessionDone =>
          /\ Cardinality(PhotoTerminators) = 1
          /\ PhotoBytes(photoLog, Len(photoLog)) = photoObs.len
    /\ (PhotoSessionDone /\ photoObs.len = 450) =>
          [i \in 1..Len(photoLog) |-> photoLog[i].size] = <<199, 200, 51, 0>>

\* A 450-byte image was uploaded in three data chunks and a terminator.
C3_Witness ==
    /\ PhotoSessionDone
    /\ photoObs.len = 450
    /\ Len(photoLog) = 4

(***************************************************************************)
(* SpecLoop: the audio and photo steps of loop_app in their order (encoded *)
(* frames published, audio transmit, capture check, chunk transfer), with  *)
(* the BLE callbacks falling between any two steps                         *)
(***************************************************************************)
LoopImageLens == {0, MaxImageLen}

NextLoop ==
    \/ Loop_start("encode")
    \/ Publish("encode", "encode", PayloadsOfLen(1, 1))
    \/ processAudioTx_enter("encode", "capture")
    \/ processAudioTx_step("capture")
    \/ Loop_capture("photo", LoopImageLens)
    \/ Loop_photo("start")
    \/ onConnect
    \/ onDisconnect
    \/ \E b \in BOOLEAN : AudioCCCD_onWrite(b)
    \/ \E v \in PhotoCommands : PhotoControl_onWrite(v)

SpecLoop == InitAt("start") /\ [][NextLoop]_vars

\* The position right after the chunk-transfer step of an iteration.
AfterPhotoStep == pc = "start"

\* C4 (as claimed): after the chunk-transfer step of an iteration in which a
\* packet is pending in the packet ring and a photo session is active,
\* photo_chunks_this_loop is 0.
C4_AudioPriority ==
    (AfterPhotoStep /\ audio_tx_read_pos # audio_tx_write_pos /\ photoDataUploading)
        => photo_chunks_this_loop = 0

\* C4 (amended): when the chunk-transfer step finds the client subscribed to
\* audio and a packet pending in the packet ring, it leaves
\* photo_chunks_this_loop at 0, where it stays until the next chunk-transfer
\* step.
C4_AudioPriority_Amended ==
    photoObs.audioPending => photo_chunks_this_loop = 0

\* The chunk-transfer step ran in a photo session with audio pending.
C4_Witness ==
    /\ photoObs.audioPending
    /\ photoObs.emitted
    /\ photoDataUploading
    /\ photo_chunks_this_loop = 0

\* C5: no photo chunk is notified by a chunk-transfer step that finds the
\* client subscribed to audio and unread data in the packet ring.
C5_AudioBeforePhoto == ~(photoObs.emitted /\ photoObs.audioPending)

(***************************************************************************)
(* SpecButton: handleButton and updateLED polled by loop_app while the     *)
(* button pin changes and time passes.  The device starts freshly booted,  *)
(* or left alone since boot until it entered power-save mode.              *)
(***************************************************************************)
IdleSince == IDLE_THRESHOLD_MS + 5000

\* Never connected since boot: the power-mode check entered power-save mode
\* and the boot LED sequence is over.
InitIdle ==
    /\ clock = IdleSince
    /\ pc = "start"
    /\ loopNow = IdleSince
    /\ InitLink
    /\ InitAudio
    /\ audioPacketIndex = 0
    /\ InitPhoto
    /\ lastActivity = 0
    /\ powerSaveMode = TRUE
    /\ cpuFreq = "min"
    /\ powerObs = [n |-> 1, evals |-> 2, conn |-> FALSE, upl |-> FALSE,
                   act |-> 0, mode |-> TRUE]
    /\ sleepObs = SleepObserved(FALSE, 0, 0, 0)
    /\ pin = FALSE
    /\ buttonPressed = FALSE
    /\ buttonPressTime = 0
    /\ lastDebounceTime = 0
    /\ buttonDown = FALSE
    /\ longPressTriggered = FALSE
    /\ ledMode = "LED_NORMAL_OPERATION"
    /\ bootStartTime = 0
    /\ powerOffStartTime = 0
    /\ buttonObs = [last |-> -1, prev |-> -1, fired |-> FALSE,
                    edge |-> -1, close |-> FALSE, acc |-> 0, acc0 |-> 0]
    /\ InitTasks

InitButton == InitAt("start") \/ InitIdle

\* Time passes in steps of 25 ms during the first 75 ms of each second and in
\* steps of a second.
ButtonTick ==
    \E d \in {25, 1000} :
        /\ d = 25 => clock % 1000 < 75
        /\ Tick(d, (IF clock >= IdleSince THEN IdleSince ELSE 0) + ButtonHorizon)

NextButton ==
    \/ Loop_start("button")
    \/ Loop_button("led")
    \/ Loop_led("start")
    \/ \E level \in BOOLEAN : buttonISR(level)
    \/ ButtonTick

SpecButton == InitButton /\ [][NextButton]_vars

\* C7 (as claimed): two physical edges less than 50 ms apart lead to at most
\* one accepted transition of buttonDown.
C7_Debounce ==
    buttonObs.close => buttonObs.acc0 <= 1

\* C7 (amended): any two successive accepted transitions of buttonDown are at
\* least 50 ms apart, so of two edges less than 50 ms apart at most one is
\* accepted inside the window.
C7_Debounce_Amended ==
    buttonObs.prev # -1 => USub(buttonObs.last, buttonObs.prev) >= 50

\* A press and a release 25 ms apart were both accepted, 50 ms apart.
C7_Witness ==
    /\ buttonObs.close
    /\ buttonObs.acc0 = 2
    /\ USub(buttonObs.last, buttonObs.prev) = 50

\* C8: the accepted release of a press whose long-press has fired leaves
\* lastActivity, powerSaveMode and the CPU frequency alone.
C8_LongPressExclusive ==
    [][ (buttonDown /\ ~buttonDown' /\ longPressTriggered) =>
            /\ lastActivity' = lastActivity
            /\ powerSaveMode' = powerSaveMode
            /\ cpuFreq' = cpuFreq ]_vars

\* A press whose long-press fired in power-save mode was released, and the
\* device is still in power-save mode.
C8_Witness ==
    /\ buttonObs.fired
    /\ ~buttonDown
    /\ powerSaveMode
    /\ USub(buttonObs.last, buttonObs.prev) > LONG_PRESS_MS

(***************************************************************************)
(* SpecSleep: the power-mode check, the capture check, the chunk transfer  *)
(* and the light-sleep step of loop_app in their order, while time passes  *)
(* and the link and photo-control callbacks fall between the steps         *)
(***************************************************************************)
\* Time passes in steps of 5 s, and in a step of 1 ms at the start, from where
\* a step of 4999 ms leads back to the multiples of 5 s.
SleepTick ==
    \E d \in {1, 4999, 5000} :
        /\ d = 1 => clock = 0
        /\ d = 4999 => clock % 5000 = 1
        /\ Tick(d, SleepHorizon)

\* Events that end a light sleep before its timer, in ms after its start.
EarlyWakes == {5000}

NextSleep ==
    \/ Loop_start("power")
    \/ Loop_power("capture")
    \/ Loop_capture("photo", {1})
    \/ Loop_photo("sleep")
    \/ Loop_sleep("start", EarlyWakes)
    \/ onConnect
    \/ \E v \in {0, 5} : PhotoControl_onWrite(v)
    \/ SleepTick

SpecSleep == InitAt("start") /\ [][NextSleep]_vars

\* A capture was scheduled when enableLightSleep was last called.
SleepScheduled == sleepObs.capturing /\ sleepObs.interval > 0

\* When the next capture was due then.
SleepDue == (sleepObs.lastCapture + sleepObs.interval) % ULONG_MOD

\* Time from that call to the next capture, 0 when it was already due.
SleepHeadroom ==
    IF SleepScheduled /\ USub(SleepDue, sleepObs.at) <= sleepObs.interval
    THEN USub(SleepDue, sleepObs.at)
    ELSE 0

\* C9: a light sleep is started only with a capture scheduled and more than
\* 10000 ms of headroom; its timer is min(headroom - 5000, 15000) ms and the
\* wake-up comes at least 5000 ms before the capture is due.
C9_LightSleepBound ==
    /\ sleepObs.slept =>
          /\ SleepScheduled
          /\ SleepHeadroom > 10000
          /\ sleepObs.timer = (IF SleepHeadroom - 5000 < 15000
                               THEN SleepHeadroom - 5000 ELSE 15000)
          /\ sleepObs.wake <= sleepObs.at + sleepObs.timer
          /\ USub(SleepDue, sleepObs.wake) >= 5000
          /\ USub(SleepDue, sleepObs.wake) <= SleepHeadroom
    /\ (~SleepScheduled \/ SleepHeadroom <= 10000) => ~sleepObs.slept

\* A light sleep ran to the end of a 15 s timer.
C9_Witness ==
    /\ sleepObs.slept
    /\ sleepObs.timer = 15000
    /\ sleepObs.wake = sleepObs.at + 15000

(***************************************************************************)
(* SpecPower: the power-mode check of loop_app, with the capture check and *)
(* the chunk transfer that change photoDataUploading, while time passes    *)
(* and the link callbacks fall between the steps                           *)
(***************************************************************************)
PowerTick == Tick(5000, PowerHorizon)

NextPower ==
    \/ Loop_start("power")
    \/ Loop_power("capture")
    \/ Loop_capture("photo", {1})
    \/ Loop_photo("start")
    \/ onConnect
    \/ onDisconnect
    \/ PowerTick

SpecPower == InitAt("start") /\ [][NextPower]_vars

\* C10: over successive power-mode checks between which connected,
\* photoDataUploading, lastActivity and the mode are changed by nothing but
\* the check itself, the mode is switched at most once.
C10_IdempotentIdle == powerObs.n <= 1

\* Idle for more than IDLE_THRESHOLD_MS, the check switched to power-save
\* mode and was evaluated again, unchanged.
C10_Witness ==
    /\ powerObs.n = 1
    /\ powerObs.evals = 2
    /\ powerSaveMode
    /\ cpuFreq = "min"
    /\ loopNow > lastActivity + IDLE_THRESHOLD_MS

(***************************************************************************)
(* Activity clock                                                          *)
(***************************************************************************)
\* C11: no step stores in lastActivity a value below the one it replaces.
C11_ActivityMonotonic == [][lastActivity' >= lastActivity]_vars

C13_RejectedPublish ==
    [][ /\ (txPublish'.len # 0 /\ ~txPublish'.stored) =>
              /\ audio_tx_buffer' = audio_tx_buffer
              /\ audio_tx_write_pos' = audio_tx_write_pos
              /\ audio_tx_read_pos' = audio_tx_read_pos
        /\ txPublish'.len > OPUS_OUTPUT_MAX_BYTES => ~txPublish'.stored
      ]_vars

\* A packet of acceptable length was rejected by a ring holding unread data.
C13_Witness ==
    /\ ~txPublish.stored
    /\ txPublish.len >= 1
    /\ txPublish.len <= OPUS_OUTPUT_MAX_BYTES
    /\ audio_tx_read_pos # audio_tx_write_pos

\* SpecDrop: the packet ring fed with the shortest packets and with packets
\* one byte too long.
DropPayloads ==
    PayloadsOfLen(1, 1) \cup PayloadsOfLen(OPUS_OUTPUT_MAX_BYTES + 1, OPUS_OUTPUT_MAX_BYTES + 1)

NextDrop ==
    \/ Publish("idle", "idle", DropPayloads)
    \/ processAudioTx_enter("idle", "idle")
    \/ processAudioTx_step("idle")
    \/ onConnect
    \/ onDisconnect
    \/ \E b \in BOOLEAN : AudioCCCD_onWrite(b)

SpecDrop == InitAt("idle") /\ [][NextDrop]_vars

\* C14: in loop_app, where the task leaves the position "encode" by calling
\* processAudioTx, a call made while disconnected or unsubscribed returns at
\* once: the task moves on to the capture check, nothing is notified and the
\* ring positions, the buffer and audioPacketIndex are unchanged.
C14_DrainNoOp ==
    [][ (pc = "encode" /\ pc' # "encode" /\ ~(connected /\ audioSubscribed)) =>
            /\ pc' = "capture"
            /\ audioNotify' = audioNotify
            /\ audioPacketIndex' = audioPacketIndex
            /\ audio_tx_read_pos' = audio_tx_read_pos
            /\ audio_tx_write_pos' = audio_tx_write_pos
            /\ audio_tx_buffer' = audio_tx_buffer
      ]_vars

\* processAudioTx has returned with packets still pending and no subscriber.
C14_Witness ==
    /\ pc = "capture"
    /\ audio_tx_read_pos # audio_tx_write_pos
    /\ ~(connected /\ audioSubscribed)
    /\ audioNotify.n = 0


(***************************************************************************)
(* C15: what the packet ring holds while nothing can be sent               *)
(***************************************************************************)
\* C15 (as stated): while the link is disconnected or audio is unsubscribed
\* the ring holds the most recently produced packets: the last packet the
\* encoder published, of a length the ring admits, is stored.
C15_FreshWhileUnsendable ==
    (~DrainEnabled /\ txPublish.len >= 1
                   /\ txPublish.len <= OPUS_OUTPUT_MAX_BYTES)
        => txPublish.stored

\* C15 (amended): while the link is disconnected or audio is unsubscribed
\* and no drain is in progress, no step moves audio_tx_read_pos, and a
\* publish that onOpusEncoded rejects leaves the queued bytes and the write
\* position as they were: the packet that is lost is the new one.
C15_BacklogKept ==
    [][ (~DrainEnabled /\ pc # "tx") =>
            /\ audio_tx_read_pos' = audio_tx_read_pos
            /\ (txPublish' # txPublish /\ ~txPublish'.stored) =>
                   /\ audio_tx_buffer' = audio_tx_buffer
                   /\ audio_tx_write_pos' = audio_tx_write_pos
      ]_vars

\* Nothing was ever sent, the ring holds a backlog and the newest packet,
\* of an admissible length, was dropped.
C15_Witness ==
    /\ ~DrainEnabled
    /\ audioNotify.n = 0 /\ audioPacketIndex = 0
    /\ audio_tx_read_pos = 0 /\ audio_tx_write_pos # 0
    /\ txPublish.len = 1 /\ ~txPublish.stored


(***************************************************************************)
(* SpecLed: handleButton and updateLED in loop order from boot, with the   *)
(* button interrupt and the BLE callbacks between the steps                *)
(***************************************************************************)
\* Last instant of the clock explored by SpecLed, in ms.
LedHorizon == 3500

\* Time passes in steps of half a second.
LedTick == Tick(500, LedHorizon)

NextLed ==
    \/ Loop_start("button")
    \/ Loop_button("led")
    \/ Loop_led("start")
    \/ \E level \in BOOLEAN : buttonISR(level)
    \/ onConnect
    \/ onDisconnect
    \/ LedTick

SpecLed == InitAt("start") /\ [][NextLed]_vars

\* C16: ledMode changes only from the boot sequence to normal operation or
\* from either of them to the power-off sequence; no step leaves the
\* power-off sequence.
C16_LedOneWay ==
    [][ ledMode' # ledMode =>
            \/ /\ ledMode = "LED_BOOT_SEQUENCE"
               /\ ledMode' \in {"LED_NORMAL_OPERATION", "LED_POWER_OFF_SEQUENCE"}
            \/ /\ ledMode = "LED_NORMAL_OPERATION"
               /\ ledMode' = "LED_POWER_OFF_SEQUENCE"
      ]_vars

\* The power-off sequence is running, the long press was released and a new
\* press has been accepted since.
C16_Witness ==
    /\ ledMode = "LED_POWER_OFF_SEQUENCE"
    /\ powerOffStartTime # 0
    /\ buttonDown /\ ~longPressTriggered
    /\ buttonObs.prev # -1
    /\ pc # "off"


(***************************************************************************)
(* C17: what is notified while the link is down                            *)
(***************************************************************************)
\* C17: while the link is disconnected no step notifies a photo chunk or a
\* terminator, and while it is disconnected or audio is unsubscribed no step
\* notifies an audio packet.
C17_DisconnectStopsService ==
    [][ /\ ~connected => photoLog' = photoLog
        /\ ~(connected /\ audioSubscribed) => audioNotify' = audioNotify
      ]_vars


(***************************************************************************)
(* C18: photo notifications per iteration                                  *)
(***************************************************************************)
\* C18: at most 2 photo notifications (data chunks and terminator) leave
\* between two readings of millis() at the top of loop_app.
C18_PhotoBurstBound == photoObs.burst <= 2

\* A data chunk of an image that needs several chunks left in this iteration
\* while audio was waiting in the packet ring.
C18_Witness ==
    /\ pc = "start"
    /\ photoObs.burst >= 1
    /\ photoObs.audioPending
    /\ sent_photo_frames >= 1 /\ sent_photo_bytes < photoObs.len


(***************************************************************************)
(* SpecWire: packets of distinct bytes published, drained and notified,    *)
(* with the sequence number started near 0 and near the wrap               *)
(***************************************************************************)
\* Encoder outputs whose bytes tell their order.
WirePayloads == {<<9>>, <<10, 9>>}

NextWire ==
    \/ Publish("idle", "idle", WirePayloads)
    \/ processAudioTx_enter("idle", "idle")
    \/ processAudioTx_step("idle")
    \/ onConnect
    \/ onDisconnect
    \/ \E b \in BOOLEAN : AudioCCCD_onWrite(b)

SpecWire == InitSeq /\ [][NextWire]_vars

\* C19: a step that notifies an audio packet sends, for the record of length
\* len at the read position, len + 3 bytes: the low byte of audioPacketIndex,
\* its high byte, 0, and the record's len payload bytes in their order.
C19_AudioWireFormat ==
    [][ audioNotify' # audioNotify =>
            LET len  == RingLenAt(audio_tx_buffer, audio_tx_read_pos)
                wire == audioNotify'.wire
            IN
            /\ Len(wire) = len + 3
            /\ wire[1] = audioPacketIndex % 256
            /\ wire[2] = (audioPacketIndex \div 256) % 256
            /\ wire[3] = 0
            /\ \A i \in 1..len :
                  wire[i + 3] =
                      audio_tx_buffer[(audio_tx_read_pos + 2 + i - 1)
                                          % AUDIO_TX_BUFFER_SIZE]
      ]_vars

\* The packet <<10, 9>> left with a sequence number whose two bytes differ.
C19_Witness ==
    /\ audioNotify.seq = UINT16_MOD - 2
    /\ audioNotify.wire = <<254, 255, 0, 10, 9>>


C21_PowerModeRule ==
    [][ (pc = "power" /\ pc' # "power") =>
            LET idle == loopNow - lastActivity > IDLE_THRESHOLD_MS IN
            /\ (~connected /\ ~photoDataUploading /\ idle) => powerSaveMode'
            /\ (connected \/ photoDataUploading) =>
                   (~powerSaveMode' /\ lastActivity' = loopNow)
            /\ (~connected /\ ~photoDataUploading /\ ~idle) =>
                   powerSaveMode' = powerSaveMode
            /\ (~powerSaveMode /\ powerSaveMode') =>
                   (~connected /\ ~photoDataUploading /\ idle)
      ]_vars


(***************************************************************************)
(* SpecDrain: SpecRing with the drain loop running on once it has begun    *)
(***************************************************************************)
\* The loop of processAudioTx is not suspended for ever: the loop task keeps
\* being scheduled (app.cpp:559-585).
SpecDrain == SpecRing /\ WF_vars(processAudioTx_step("idle"))

\* C22: a drain that has begun returns, and it returns with the read
\* position on the write position.
C22_DrainTerminates ==
    /\ (pc = "tx") ~> (pc = "idle")
    /\ [][(pc = "tx" /\ pc' = "idle") =>
              audio_tx_read_pos' = audio_tx_write_pos']_vars


(***************************************************************************)
(* C23: the frames opus_process pops                                       *)
(***************************************************************************)
\* C23: every pass of opus_process with a complete frame waiting pops the
\* OPUS_FRAME_SAMPLES oldest unread samples in the order of their push and
\* nothing else; a pass stores a packet only of 1 byte or more; the call
\* returns only with fewer than OPUS_FRAME_SAMPLES samples readable, and
\* then changes nothing.
C23_DrainAllFrames ==
    [][ pc = "opus" =>
          IF pc' = "opus"
          THEN /\ PcmAvailable >= OPUS_FRAME_SAMPLES
               /\ Len(pcmUnread) >= OPUS_FRAME_SAMPLES
               /\ opus_input_buffer' = SubSeq(pcmUnread, 1, OPUS_FRAME_SAMPLES)
               /\ ring_buffer_available(ring_write_pos', ring_read_pos')
                      = PcmAvailable - OPUS_FRAME_SAMPLES
               /\ ring_write_pos' = ring_write_pos
               /\ audio_tx_write_pos' # audio_tx_write_pos =>
                      RingLenAt(audio_tx_buffer', audio_tx_write_pos) >= 1
          ELSE /\ PcmAvailable < OPUS_FRAME_SAMPLES
               /\ ring_read_pos' = ring_read_pos
               /\ ring_write_pos' = ring_write_pos
               /\ audio_tx_write_pos' = audio_tx_write_pos
      ]_vars

\* A frame of two different samples was popped and a second complete frame
\* is waiting in the same call.
C23_Witness ==
    /\ pc = "opus"
    /\ opus_input_buffer = <<0, 1>>
    /\ PcmAvailable >= OPUS_FRAME_SAMPLES
    /\ Len(pcmUnread) = PcmAvailable


(***************************************************************************)
(* SpecUpload: SpecLoop with the loop task running on: every step of       *)
(* loop_app that is due is taken; the BLE callbacks come when they come    *)
(***************************************************************************)
SpecUpload ==
    /\ SpecLoop
    /\ WF_vars(Loop_start("encode"))
    /\ WF_vars(processAudioTx_enter("encode", "capture"))
    /\ WF_vars(processAudioTx_step("capture"))
    /\ WF_vars(Loop_capture("photo", LoopImageLens))
    /\ WF_vars(Loop_photo("start"))

MidFrames == 255

\* Bytes those chunks carried: one first chunk and full later chunks.
MidBytes == FIRST_CHUNK_MAX + (MidFrames - 1) * CHUNK_MAX

\* Length of the large image.
MidImageLen == MidBytes + MaxImageLen

\* The upload of the large image after MidFrames chunks, the single-shot
\* capture that began it being over (app.cpp:1372-1381, 1398-1421).
InitMidUpload ==
    /\ clock = 0
    /\ pc = "start"
    /\ loopNow = 0
    /\ InitLink
    /\ InitAudio
    /\ audioPacketIndex = 0
    /\ isCapturingPhotos = FALSE
    /\ captureInterval = 0
    /\ lastCaptureTime = 0
    /\ photoDataUploading = TRUE
    /\ fb = [len |-> MidImageLen]
    /\ sent_photo_bytes = MidBytes
    /\ sent_photo_frames = MidFrames
    /\ photo_chunks_this_loop = 0
    /\ photoLog = <<>>
    /\ photoObs = [emitted |-> FALSE, audioPending |-> FALSE,
                   len |-> MidImageLen, burst |-> 0, failed |-> FALSE,
                   out |-> 1]
    /\ InitPower
    /\ InitUi
    /\ InitTasks

NextChunk ==
    \/ Loop_start("capture")
    \/ Loop_capture("photo", {MaxImageLen})
    \/ Loop_photo("start")
    \/ onConnect
    \/ onDisconnect
    \/ \E v \in PhotoCommands : PhotoControl_onWrite(v)

SpecChunk == (InitAt("start") \/ InitMidUpload) /\ [][NextChunk]_vars

\* C25: the step that sends the data chunk after k earlier ones puts k, low
\* byte first, in the first two bytes (and the orientation behind them when
\* k = 0), takes its bytes from where the chunk before ended, carries at
\* least one byte and moves sent_photo_bytes to the end of its range; no
\* other step of a session moves sent_photo_bytes or sent_photo_frames.
C25_ChunkHeaders ==
    [][ IF photoDataUploading /\ photoDataUploading'
           /\ sent_photo_frames' # sent_photo_frames
        THEN LET c == photoLog'[Len(photoLog')]
                 k == sent_photo_frames
             IN
             /\ sent_photo_frames' = k + 1
             /\ Len(photoLog') = Len(photoLog) + 1
             /\ c.kind = "data"
             /\ c.hdr[1] = k % 256
             /\ c.hdr[2] = (k \div 256) % 256
             /\ (k = 0) => c.hdr = <<0, 0, FIXED_IMAGE_ORIENTATION>>
             /\ (k > 0) => Len(c.hdr) = 2
             /\ c.off = sent_photo_bytes
             /\ c.size >= 1
             /\ sent_photo_bytes' = c.off + c.size
             /\ sent_photo_bytes' <= fb.len
        ELSE (photoDataUploading /\ photoDataUploading') =>
                 sent_photo_bytes' = sent_photo_bytes
      ]_vars

\* The chunk with frame index 256 was sent: its header is [0][1].
C25_Witness ==
    /\ photoDataUploading
    /\ sent_photo_frames = 257
    /\ photoLog # <<>>
    /\ photoLog[Len(photoLog)].hdr = <<0, 1>>
    /\ photoLog[Len(photoLog)].off = MidBytes + CHUNK_MAX


(***************************************************************************)
(* C26: a capture that fails                                               *)
(***************************************************************************)
\* C26: the capture check whose take_photo fails starts no session: it
\* leaves photoDataUploading false, fb empty, sent_photo_bytes,
\* sent_photo_frames and lastCaptureTime as they were; up to and including
\* the chunk step of that iteration no photo notification leaves, and the
\* chunk step passes on to the rest of the iteration.
C26_CaptureFailure ==
    [][ /\ (~photoObs.failed /\ photoObs'.failed) =>
              /\ pc = "capture" /\ pc' = "photo"
              /\ ~photoDataUploading /\ ~photoDataUploading'
              /\ fb' = NoFb
              /\ sent_photo_bytes' = sent_photo_bytes
              /\ sent_photo_frames' = sent_photo_frames
              /\ lastCaptureTime' = lastCaptureTime
              /\ photoLog' = photoLog
        /\ photoObs.failed =>
              /\ pc = "photo"
              /\ ~photoDataUploading' /\ fb' = NoFb
              /\ photoLog' = photoLog
              /\ pc' # "photo" => (pc' = "start" /\ ~photoObs'.failed)
      ]_vars

\* take_photo has just failed in interval mode: the capture is still due.
C26_Witness ==
    /\ photoObs.failed
    /\ pc = "photo"
    /\ captureInterval > 0 /\ isCapturingPhotos
    /\ CaptureDue(loopNow)
    /\ ~photoDataUploading /\ fb = NoFb


(***************************************************************************)
(* C27: who holds the camera frame buffer                                  *)
(***************************************************************************)
\* C27: a session is active exactly when a frame buffer is held, and then
\* exactly one buffer is out of the camera driver, otherwise none; a buffer
\* is taken only when none is held; a buffer goes back only in the step that
\* ends its session; a photo notification is built only from a held buffer.
C27_BufferOwnership ==
    /\ [](photoDataUploading <=> fb # NoFb)
    /\ [](photoObs.out = IF fb # NoFb THEN 1 ELSE 0)
    /\ [][ /\ (fb' # fb /\ fb' # NoFb) => fb = NoFb
           /\ (fb # NoFb /\ fb' = NoFb) =>
                  (photoDataUploading /\ ~photoDataUploading'
                     /\ sent_photo_bytes = fb.len)
           /\ (photoLog' # photoLog /\ photoLog' # <<>>) => fb # NoFb
         ]_vars

\* The session of a one-byte image has ended: its buffer was taken over,
\* sent in one data chunk and a terminator, and given back; none is out.
C27_Witness ==
    /\ pc = "start"
    /\ ~photoDataUploading /\ fb = NoFb
    /\ photoObs.out = 0
    /\ photoObs.len = 1
    /\ Len(photoLog) = 2
    /\ lastCaptureTime = loopNow
    /\ ~isCapturingPhotos


(***************************************************************************)
(* C28: the long press                                                     *)
(***************************************************************************)
\* C28: the long-press action fires only in handleButton, with the button
\* read as pressed during an accepted press that began at least 2000 ms
\* before, and it starts the power-off sequence; once fired, the flag stays
\* until the next accepted edge, so it fires once in a press; a press whose
\* release is accepted less than 2000 ms after its accepted press edge has
\* not fired; nothing else starts the power-off sequence.
C28_LongPressOnce ==
    [][ /\ (~longPressTriggered /\ longPressTriggered') =>
              /\ pc = "button"
              /\ pin /\ buttonDown /\ buttonDown'
              /\ buttonPressTime' = buttonPressTime
              /\ USub(clock, buttonPressTime) >= 2000
              /\ ledMode' = "LED_POWER_OFF_SEQUENCE"
        /\ (longPressTriggered /\ ~longPressTriggered') => buttonDown' # buttonDown
        /\ (buttonDown /\ ~buttonDown' /\ USub(clock, buttonPressTime) < 2000) =>
              ~longPressTriggered
        /\ (ledMode # "LED_POWER_OFF_SEQUENCE"
              /\ ledMode' = "LED_POWER_OFF_SEQUENCE") =>
              (~longPressTriggered /\ longPressTriggered')
      ]_vars

\* A long press has fired and the button, still held, was polled again a
\* second later.
C28_Witness ==
    /\ longPressTriggered /\ buttonDown /\ pin
    /\ ledMode = "LED_POWER_OFF_SEQUENCE"
    /\ pc = "led"
    /\ USub(loopNow, buttonPressTime) >= LONG_PRESS_MS + 1000


(***************************************************************************)
(* C29: the short press                                                    *)
(***************************************************************************)
\* C29: the accepted release of a press whose long-press has not fired and
\* that was held at least 50 ms stores the time of the call in lastActivity
\* and leaves the device out of power-save mode at the normal CPU frequency;
\* the step changes neither ledMode nor the capture, photo or audio state.
C29_ShortPress ==
    [][ (buttonDown /\ ~buttonDown' /\ ~longPressTriggered
           /\ USub(clock, buttonPressTime) >= 50) =>
            /\ lastActivity' = clock
            /\ ~powerSaveMode' /\ cpuFreq' = "normal"
            /\ ledMode' = ledMode
            /\ UNCHANGED <<captureVars, photoVars, audioVars, bleVars>>
      ]_vars

\* A short press woke the device from power-save mode.
C29_Witness ==
    /\ clock >= IdleSince
    /\ ~buttonDown /\ ~pin
    /\ ~buttonObs.fired
    /\ buttonObs.prev # -1
    /\ lastActivity = buttonObs.last
    /\ lastActivity >= IdleSince
    /\ ~powerSaveMode /\ cpuFreq = "normal"
    /\ ledMode = "LED_NORMAL_OPERATION"


(***************************************************************************)
(* SpecShutdown: handleButton and updateLED in loop order from boot, with  *)
(* the loop task and the clock running on                                  *)
(***************************************************************************)
\* Last instant at which a long press can fire in SpecShutdown, in ms.
ShutdownHorizon == 2800

\* Time passes in steps of 400 ms up to the horizon, and beyond it until the
\* power-off sequence that updateLED has begun is over.
ShutdownTick ==
    Tick(400, IF /\ ledMode = "LED_POWER_OFF_SEQUENCE"
                 /\ powerOffStartTime # 0
                 /\ ~PowerOffDone(clock, powerOffStartTime)
              THEN clock + 400 ELSE ShutdownHorizon)

NextShutdown ==
    \/ Loop_start("button")
    \/ Loop_button("led")
    \/ Loop_led("start")
    \/ \E level \in BOOLEAN : buttonISR(level)
    \/ ShutdownTick

SpecShutdown ==
    /\ InitAt("start")
    /\ [][NextShutdown]_vars
    /\ WF_vars(Loop_start("button"))
    /\ WF_vars(Loop_button("led"))
    /\ WF_vars(Loop_led("start"))
    /\ WF_vars(ShutdownTick)

LoopOrder_PhotoFirst ==
    <<"start", "button", "led", "ota", "mic", "encode", "txcheck", "power",
      "photo", "capture", "sleep", "delay">>

\* The statements of loop_app in program order (app.cpp:1302-1468): read of
\* millis(), handleButton, updateLED, ota_loop, mic_process, opus_process,
\* the audio transmit test, the power-mode check, the capture check, the
\* chunk transfer, the light-sleep test, the pacing delay.
LoopOrder ==
    <<"start", "button", "led", "ota", "mic", "encode", "txcheck", "power",
      "capture", "photo", "sleep", "delay">>

\* The position that follows p in the iteration; the first follows the last.
StepAfter(p) ==
    LET i == CHOOSE k \in 1..Len(LoopOrder) : LoopOrder[k] = p IN
    LoopOrder[(i % Len(LoopOrder)) + 1]

\* 3. ota_loop() (app.cpp:1317; ota.cpp:609-611): an empty function.
Loop_ota(to) ==
    /\ pc = "ota"
    /\ pc' = to
    /\ UNCHANGED <<clock, loopNow, bleVars, audioVars, captureVars, photoVars,
                   powerVars, obsVars, taskVars, uiVars>>

\* Last instant of the clock that SpecSched reaches by waiting, in ms.
SchedHorizon == 7500

\* Time passes in steps of 2.5 s.
SchedTick == Tick(2500, SchedHorizon)

\* One i2s_read of a whole frame.
SchedReads == {<<0, 0>>}

\* The encoder yields a one-byte packet per frame while the sequence number
\* is near 0, and nothing after.
SchedOutcomes == IF EncoderActive THEN PayloadsOfLen(1, 1) ELSE {EncodeFail}

NextSched ==
    \/ Loop_start(StepAfter("start"))
    \/ Loop_button(StepAfter("button"))
    \/ Loop_led(StepAfter("led"))
    \/ Loop_ota(StepAfter("ota"))
    \/ mic_process("mic", StepAfter("mic"), SchedReads)
    \/ opus_process_call("encode")
    \/ opus_process_step(StepAfter("encode"), SchedOutcomes)
    \/ processAudioTx_enter("txcheck", StepAfter("txcheck"))
    \/ processAudioTx_step(StepAfter("txcheck"))
    \/ Loop_power(StepAfter("power"))
    \/ Loop_capture(StepAfter("capture"), {1})
    \/ Loop_photo(StepAfter("photo"))
    \/ Loop_sleep(StepAfter("sleep"), EarlyWakes)
    \/ Loop_delay
    \/ buttonISR(TRUE)
    \/ onConnect
    \/ AudioCCCD_onWrite(TRUE)
    \/ SchedTick

SpecSched == InitAt("start") /\ [][NextSched]_vars

\* Priority of the step the loop task is in: 1 button, 2 LED, 3 OTA poll,
\* 4 audio capture and encode, 5 audio send, 6 power-mode check, 7 capture
\* check, 8 chunk transfer, 9 light sleep, 10 pacing delay; 0 before the
\* first step, 11 after shutdownDevice.
SchedRank ==
    [p \in {"start", "button", "led", "ota", "mic", "encode", "opus", "txcheck",
            "tx", "power", "capture", "photo", "sleep", "delay", "off"} |->
        CASE p = "start" -> 0
          [] p = "button" -> 1
          [] p = "led" -> 2
          [] p = "ota" -> 3
          [] p \in {"mic", "encode", "opus"} -> 4
          [] p \in {"txcheck", "tx"} -> 5
          [] p = "power" -> 6
          [] p = "capture" -> 7
          [] p = "photo" -> 8
          [] p = "sleep" -> 9
          [] p = "delay" -> 10
          [] OTHER -> 11]

\* C31: the loop task passes from a step only to the step of the next
\* priority (or stays within its step, or is shut down by the LED step), a
\* new iteration begins only after the pacing delay, and the work of a step
\* is done only at its place: the button state machine moves at 1, the LED
\* sequence times at 2, samples at 4, audio notifications at 5, the mode
\* check at 6, a session begins at 7, photo notifications at 8, a light
\* sleep at 9.
C31_SchedulerOrder ==
    [][ /\ pc' # pc =>
              \/ SchedRank[pc'] = SchedRank[pc]
              \/ SchedRank[pc'] = SchedRank[pc] + 1 /\ pc' # "off"
              \/ pc = "delay" /\ pc' = "start"
              \/ pc = "led" /\ pc' = "off"
        /\ pc' = "start" => pc \in {"start", "delay"}
        /\ buttonDown' # buttonDown => SchedRank[pc] = 1
        /\ <<bootStartTime, powerOffStartTime>>' # <<bootStartTime, powerOffStartTime>>
              => SchedRank[pc] = 2
        /\ pcmVars' # pcmVars => SchedRank[pc] = 4
        /\ audioNotify' # audioNotify => SchedRank[pc] = 5
        /\ powerObs' # powerObs => SchedRank[pc] = 6
        /\ (~photoDataUploading /\ photoDataUploading') => SchedRank[pc] = 7
        /\ photoLog' # photoLog => SchedRank[pc] \in {7, 8}
        /\ (photoLog' # photoLog /\ photoLog' # <<>>) => SchedRank[pc] = 8
        /\ sleepObs' # sleepObs => SchedRank[pc] = 9
      ]_vars

\* An iteration that accepted a button press, ended the boot LED sequence,
\* sent an audio packet, began a photo session and sent its first chunk is
\* at its pacing delay.
C31_Witness ==
    /\ pc = "delay"
    /\ buttonDown /\ buttonPressTime = loopNow
    /\ ledMode = "LED_NORMAL_OPERATION"
    /\ audioNotify.seq # -1
    /\ lastCaptureTime = loopNow
    /\ photoObs.burst = 1
    /\ powerObs.evals >= 1


(***************************************************************************)
(* C32: the subscription across connect and disconnect                     *)
(***************************************************************************)
\* C32: a step that connects or disconnects the link leaves audioSubscribed
\* false; audioSubscribed turns true only in a step that finds the link
\* connected and changes nothing else (the write of the audio CCCD with the
\* notify bit); an audio packet is notified only with the link connected and
\* audioSubscribed true.
C32_SubscriptionReset ==
    [][ /\ connected' # connected => ~audioSubscribed'
        /\ (~audioSubscribed /\ audioSubscribed') =>
              /\ connected /\ connected'
              /\ UNCHANGED <<clock, loopVars, audioVars>>
        /\ audioNotify' # audioNotify => (connected /\ audioSubscribed)
      ]_vars

\* Packets were notified, and now the link is connected without a
\* subscription: packets wait in the ring, a drain was tried and the last
\* notification is still the old one.
C32_Witness ==
    /\ connected /\ ~audioSubscribed
    /\ audioNotify.seq = 0 /\ audioPacketIndex = 1
    /\ audio_tx_read_pos # audio_tx_write_pos
    /\ txPublish.len = 1 /\ txPublish.stored
    /\ pc = "idle"


(***************************************************************************)
(* SpecActivity: the events the activity clock is meant to follow: the     *)
(* audio and photo steps of loop_app in their order, the link and          *)
(* subscription callbacks, while time passes                               *)
(***************************************************************************)
\* Last instant of the clock explored by SpecActivity, in ms.
ActivityHorizon == 2000

\* Time passes in steps of a second.
ActivityTick == Tick(1000, ActivityHorizon)

NextActivity ==
    \/ Loop_start("encode")
    \/ Publish("encode", "encode", PayloadsOfLen(1, 1))
    \/ processAudioTx_enter("encode", "capture")
    \/ processAudioTx_step("capture")
    \/ Loop_capture("photo", {1})
    \/ Loop_photo("start")
    \/ onConnect
    \/ onDisconnect
    \/ \E b \in BOOLEAN : AudioCCCD_onWrite(b)
    \/ ActivityTick

SpecActivity == InitAt("start") /\ [][NextActivity]_vars

\* C33: a step in which the link connects or disconnects, the audio
\* subscription changes, a photo chunk or an audio packet is notified, or a
\* short press is accepted at its release, leaves lastActivity at the
\* current time.
C33_ActivityRefresh ==
    [][ ( \/ connected' # connected
          \/ audioSubscribed' # audioSubscribed
          \/ (photoLog' # photoLog /\ photoLog' # <<>>)
          \/ audioNotify' # audioNotify
          \/ (buttonDown /\ ~buttonDown' /\ ~longPressTriggered
                /\ USub(clock, buttonPressTime) >= DEBOUNCE_MS) )
        => lastActivity' = clock ]_vars


(***************************************************************************)
(* SpecQuiet: the power-mode check, the capture check, the chunk transfer  *)
(* and the light-sleep step of loop_app running on, with one client that   *)
(* connects and then stays, and the clock running on                       *)
(***************************************************************************)
\* Last instant of the clock that SpecQuiet reaches by waiting, in ms: up to
\* here the capture that follows one made at 0 is more than 10 s away.
QuietHorizon == 19000

\* Time passes in steps of a second.
QuietTick == Tick(1000, QuietHorizon)

NextQuiet ==
    \/ Loop_start("power")
    \/ Loop_power("capture")
    \/ Loop_capture("photo", {1})
    \/ Loop_photo("sleep")
    \/ Loop_sleep("start", EarlyWakes)
    \/ onConnect
    \/ QuietTick

\* The loop task is scheduled again and again and time does not stop
\* (app.cpp:1300-1469 is called from loop() for ever).
SpecQuiet ==
    /\ InitAt("start")
    /\ [][NextQuiet]_vars
    /\ WF_vars(Loop_start("power"))
    /\ WF_vars(Loop_power("capture"))
    /\ WF_vars(Loop_capture("photo", {1}))
    /\ WF_vars(Loop_photo("sleep"))
    /\ WF_vars(Loop_sleep("start", EarlyWakes))
    /\ WF_vars(QuietTick)

\* The client connected at boot and the upload of the photo taken then is
\* over: from here on the link stays up, nothing is uploaded, audio is not
\* subscribed, the next capture is due at 30 s and no activity event comes.
QuietFromBoot ==
    /\ clock = 0
    /\ connected /\ ~audioSubscribed
    /\ PhotoSessionDone
    /\ isCapturingPhotos /\ captureInterval > 0 /\ lastCaptureTime = 0

\* C34: from a state where the link is connected, no upload is active, audio
\* is not subscribed and an interval capture is scheduled more than 10 s
\* ahead, with no activity event following, the loop reaches a light sleep.
C34_SleepTaken == QuietFromBoot ~> sleepObs.slept


(***************************************************************************)
(* SpecStop: the capture check of loop_app and the photo-control callback  *)
(* statement by statement: the loop task and the BLE task share            *)
(* isCapturingPhotos, captureInterval and lastCaptureTime without a lock   *)
(***************************************************************************)
\* PhotoControlCallback::onWrite up to the call of handlePhotoControl
\* (app.cpp:707-712); v is the int8_t command.
PhotoControl_begin(v) ==
    /\ blePc = BleIdle
    /\ connected
    /\ lastActivity' = clock
    /\ blePc' = [cmd |-> v, at |-> 1]
    /\ UNCHANGED <<clock, loopVars, bleVars, audioVars, captureVars, photoVars,
                   cpuVars, obsVars, uiVars, photoCmd, otaVars>>

\* handlePhotoControl, the next store of the branch the command takes
\* (app.cpp:1079-1102); the function returns after the last one.
handlePhotoControl_step ==
    LET v == blePc.cmd
        interval == v >= 5 /\ v <= 300
        last == \/ blePc.at = 2 /\ ~interval
                \/ blePc.at = 3
                \/ v \notin {-1, 0} /\ ~interval
    IN
    /\ blePc.at >= 1
    /\ IF v \notin {-1, 0} /\ ~interval
       THEN UNCHANGED captureVars
       ELSE IF blePc.at = 1
       THEN /\ isCapturingPhotos' = IF interval THEN isCapturingPhotos ELSE (v = -1)
            /\ captureInterval' = IF interval THEN PHOTO_CAPTURE_INTERVAL_MS
                                  ELSE captureInterval
            /\ UNCHANGED lastCaptureTime
       ELSE IF blePc.at = 2
       THEN /\ isCapturingPhotos' = IF interval THEN TRUE ELSE isCapturingPhotos
            /\ captureInterval' = IF interval THEN captureInterval ELSE 0
            /\ UNCHANGED lastCaptureTime
       ELSE /\ lastCaptureTime' = USub(clock, captureInterval)
            /\ UNCHANGED <<isCapturingPhotos, captureInterval>>
    /\ blePc' = IF last THEN BleIdle ELSE [blePc EXCEPT !.at = @ + 1]
    /\ photoCmd' = IF last THEN v ELSE photoCmd
    /\ UNCHANGED <<clock, loopVars, bleVars, audioVars, photoVars, powerVars,
                   obsVars, uiVars, otaVars>>

\* Outer test of the capture check (app.cpp:1367).
Loop_capture_outer(to) ==
    /\ pc = "capture"
    /\ pc' = IF CaptureAllowed THEN "due" ELSE to
    /\ UNCHANGED <<clock, loopNow, bleVars, audioVars, captureVars, photoVars,
                   powerVars, obsVars, uiVars, taskVars>>

\* Capture-interval test (app.cpp:1370).
Loop_capture_due(to) ==
    /\ pc = "due"
    /\ pc' = IF CaptureDue(loopNow) THEN "single" ELSE to
    /\ UNCHANGED <<clock, loopNow, bleVars, audioVars, captureVars, photoVars,
                   powerVars, obsVars, uiVars, taskVars>>

\* Single-shot test and store (app.cpp:1371-1374).
Loop_capture_single ==
    /\ pc = "single"
    /\ pc' = "take"
    /\ isCapturingPhotos' = IF captureInterval = 0 THEN FALSE ELSE isCapturingPhotos
    /\ UNCHANGED <<clock, loopNow, bleVars, audioVars, captureInterval,
                   lastCaptureTime, photoVars, powerVars, obsVars, uiVars, taskVars>>

\* take_photo and the start of the session (app.cpp:1376-1381, 1033-1059).
Loop_capture_take(to, lens) ==
    /\ pc = "take"
    /\ pc' = to
    /\ \E got \in {-1} \cup lens :
          IF got = -1
          THEN /\ fb' = NoFb
               /\ lastCaptureTime' = CaptureTimeAfterFailure(lastCaptureTime, loopNow)
               /\ photoObs' = [photoObs EXCEPT !.failed = TRUE,
                                  !.out = FbReleased(photoObs.out, fb)]
               /\ UNCHANGED <<photoDataUploading, sent_photo_bytes,
                              sent_photo_frames, photoLog, lastActivity>>
          ELSE /\ fb' = [len |-> got]
               /\ lastActivity' = clock
               /\ photoDataUploading' = TRUE
               /\ sent_photo_bytes' = 0
               /\ sent_photo_frames' = 0
               /\ lastCaptureTime' = loopNow
               /\ photoLog' = <<>>
               /\ photoObs' = [photoObs EXCEPT !.len = got,
                                  !.out = FbReleased(photoObs.out, fb) + 1]
    /\ UNCHANGED <<clock, loopNow, bleVars, audioVars, isCapturingPhotos,
                   captureInterval, photo_chunks_this_loop, cpuVars, obsVars,
                   uiVars, taskVars>>

\* The link callbacks run in the BLE task, one callback at a time.
NextStop ==
    \/ Loop_start("capture")
    \/ Loop_capture_outer("photo")
    \/ Loop_capture_due("photo")
    \/ Loop_capture_single
    \/ Loop_capture_take("photo", {1})
    \/ Loop_photo("start")
    \/ blePc = BleIdle /\ onConnect
    \/ blePc = BleIdle /\ onDisconnect
    \/ \E v \in PhotoCommands : PhotoControl_begin(v)
    \/ handlePhotoControl_step

SpecStop == InitAt("start") /\ [][NextStop]_vars

\* handlePhotoControl(0) has returned and no later command has arrived.
StopInForce == photoCmd = 0 /\ blePc = BleIdle

\* C35: while the last command to have returned is the stop command and no
\* later command has arrived, the capture check does not decide on a capture:
\* its interval test does not pass.
C35_StopHonoured ==
    [][ (pc = "due" /\ pc' = "single") => ~StopInForce ]_vars


(***************************************************************************)
(* C36: the pace of the photo chunks                                       *)
(***************************************************************************)
\* C36: a chunk step sends at most one photo notification, and no iteration
\* sends more than one; in a session, with no subscribed audio pending, the
\* step sends one notification when the counter is 0 or 1, counting a data
\* chunk, and sends nothing and resets the counter when it is 2; a step that
\* finds subscribed audio pending and the counter below 2 leaves it at 0.
C36_PhotoPacing ==
    /\ [](photoObs.burst <= 1)
    /\ [][ /\ Len(photoLog') <= Len(photoLog) + 1
           /\ (pc = "photo" /\ pc' # "photo" /\ photoDataUploading /\ fb # NoFb) =>
                 LET sent == Len(photoLog') = Len(photoLog) + 1
                     data == sent /\ photoLog'[Len(photoLog')].kind = "data"
                 IN
                 /\ photo_chunks_this_loop \in {0, 1, 2}
                 /\ sent <=> photo_chunks_this_loop < 2
                 /\ (~AudioPending /\ data) =>
                        photo_chunks_this_loop' = photo_chunks_this_loop + 1
                 /\ (AudioPending /\ photo_chunks_this_loop < 2) =>
                        photo_chunks_this_loop' = 0
                 /\ ~data => photo_chunks_this_loop' = 0
         ]_vars

\* With no audio pending, two iterations in a row sent a data chunk each and
\* the third has sent nothing: the session rests at two chunks, counter 0.
C36_Witness ==
    /\ pc = "start"
    /\ photoDataUploading
    /\ ~photoObs.emitted /\ ~photoObs.audioPending
    /\ photo_chunks_this_loop = 0
    /\ sent_photo_frames = 2
    /\ Len(photoLog) = 2
    /\ audio_tx_read_pos = audio_tx_write_pos


(***************************************************************************)
(* OTA worker (ota.cpp): the command handler, run by the BLE task, and     *)
(* ota_task, a task of its own                                             *)
(***************************************************************************)
\* Command bytes, as the comment of ota_handle_command lists them (ota.cpp:123-135)
OTA_CMD_SET_WIFI == 1
OTA_CMD_START_OTA == 2
OTA_CMD_CANCEL_OTA == 3
OTA_CMD_GET_STATUS == 4
OTA_CMD_SET_URL == 5

\* memcpy(dst, &data[from], n); dst[n] = '\0' on a char array indexed from 0;
\* data is the command, data[0] being its first element.
StoreString(dst, data, from, n) ==
    [i \in DOMAIN dst |->
        IF i < n THEN data[from + i + 1]
        ELSE IF i = n THEN 0
        ELSE dst[i]]

\* ota_notify_status as the command handler calls it (ota.cpp:280-292); the
\* observer keeps the command byte and whether it was answered with
\* OTA_STATUS_ERROR.
OtaAnswer(cmd, status, progress) ==
    /\ otaStatus' = status
    /\ otaProgress' = progress
    /\ otaObs' = [otaObs EXCEPT !.cmd = cmd, !.n = 1 - @,
                                !.rejected = (status = "OTA_STATUS_ERROR")]

\* A command that ends without a notification.
OtaSilent(cmd) ==
    /\ otaObs' = [otaObs EXCEPT !.cmd = cmd, !.n = 1 - @, !.rejected = FALSE]
    /\ UNCHANGED <<otaStatus, otaProgress>>

\* case OTA_CMD_SET_WIFI (ota.cpp:145-182)
SetWifi(data) ==
    LET length  == Len(data)
        ssidLen == data[2]
        passLen == data[3 + ssidLen]
    IN
    IF length < 3 \/ ssidLen > WIFI_MAX_SSID_LEN \/ length < 3 + ssidLen
    THEN /\ OtaAnswer(OTA_CMD_SET_WIFI, "OTA_STATUS_ERROR", 0)
         /\ UNCHANGED wifiVars
    ELSE /\ wifiSSID' = StoreString(wifiSSID, data, 2, ssidLen)
         /\ UNCHANGED <<firmwareURL, firmwareURLSet>>
         /\ IF passLen > WIFI_MAX_PASS_LEN \/ length < 3 + ssidLen + passLen
            THEN /\ OtaAnswer(OTA_CMD_SET_WIFI, "OTA_STATUS_ERROR", 0)
                 /\ UNCHANGED <<wifiPassword, wifiCredentialsSet>>
            ELSE /\ wifiPassword' = StoreString(wifiPassword, data, 3 + ssidLen, passLen)
                 /\ wifiCredentialsSet' = TRUE
                 /\ OtaAnswer(OTA_CMD_SET_WIFI, "OTA_STATUS_IDLE", 0)

\* case OTA_CMD_SET_URL (ota.cpp:184-209); the length is big-endian.
SetUrl(data) ==
    LET length == Len(data)
        urlLen == (data[2] * 256 + data[3]) % UINT16_MOD
    IN
    IF length < 4 \/ urlLen > OTA_MAX_URL_LEN \/ length < 3 + urlLen
    THEN /\ OtaAnswer(OTA_CMD_SET_URL, "OTA_STATUS_ERROR", 0)
         /\ UNCHANGED wifiVars
    ELSE /\ firmwareURL' = StoreString(firmwareURL, data, 3, urlLen)
         /\ firmwareURLSet' = TRUE
         /\ OtaAnswer(OTA_CMD_SET_URL, "OTA_STATUS_IDLE", 0)
         /\ UNCHANGED <<wifiSSID, wifiPassword, wifiCredentialsSet>>

\* Most ota_task instances the explorations let exist at a time.
MaxOtaTasks == 2

\* A start command that does not look at otaTaskRunning.
StartOta_NoGuard ==
    IF ~wifiCredentialsSet \/ ~firmwareURLSet
    THEN /\ OtaAnswer(OTA_CMD_START_OTA, "OTA_STATUS_ERROR", 0)
         /\ UNCHANGED <<otaCancelled, otaTaskRunning, otaTasks>>
    ELSE /\ Len(otaTasks) < MaxOtaTasks
         /\ otaCancelled' = FALSE
         /\ otaTaskRunning' = TRUE
         /\ otaTasks' = Append(otaTasks, [at |-> "begin", read |-> 0])
         /\ otaObs' = [otaObs EXCEPT !.cmd = OTA_CMD_START_OTA, !.n = 1 - @,
                                     !.rejected = FALSE, !.cancel = FALSE,
                                     !.said = ""]
         /\ UNCHANGED <<otaStatus, otaProgress>>

\* case OTA_CMD_START_OTA (ota.cpp:211-237)
StartOta ==
    IF ~wifiCredentialsSet \/ ~firmwareURLSet
    THEN /\ OtaAnswer(OTA_CMD_START_OTA, "OTA_STATUS_ERROR", 0)
         /\ UNCHANGED <<otaCancelled, otaTaskRunning, otaTasks>>
    ELSE IF otaTaskRunning
    THEN /\ OtaSilent(OTA_CMD_START_OTA)
         /\ UNCHANGED <<otaCancelled, otaTaskRunning, otaTasks>>
    ELSE /\ Len(otaTasks) < MaxOtaTasks
         /\ otaCancelled' = FALSE
         /\ otaTaskRunning' = TRUE
         /\ otaTasks' = Append(otaTasks, [at |-> "begin", read |-> 0])
         /\ otaObs' = [otaObs EXCEPT !.cmd = OTA_CMD_START_OTA, !.n = 1 - @,
                                     !.rejected = FALSE, !.cancel = FALSE,
                                     !.said = ""]
         /\ UNCHANGED <<otaStatus, otaProgress>>

\* ota_cancel (ota.cpp:641-646)
ota_cancel ==
    IF otaTaskRunning
    THEN /\ otaCancelled' = TRUE
         /\ otaObs' = [otaObs EXCEPT !.cmd = OTA_CMD_CANCEL_OTA, !.n = 1 - @,
                                     !.rejected = FALSE, !.cancel = TRUE]
    ELSE /\ otaObs' = [otaObs EXCEPT !.cmd = OTA_CMD_CANCEL_OTA, !.n = 1 - @,
                                     !.rejected = FALSE]
         /\ UNCHANGED otaCancelled

\* ota_handle_command(data, length) (ota.cpp:138-256), called by
\* OTAControlCallback::onWrite with length > 0 (ota.cpp:80-85).  A reboot
\* ends everything.
ota_handle_command(data) ==
    LET command == data[1] IN
    /\ Len(data) >= 1
    /\ ~otaObs.reboot
    /\ IF command = OTA_CMD_SET_WIFI
       THEN /\ SetWifi(data)
            /\ UNCHANGED <<otaCancelled, otaTaskRunning, otaTasks>>
       ELSE IF command = OTA_CMD_SET_URL
       THEN /\ SetUrl(data)
            /\ UNCHANGED <<otaCancelled, otaTaskRunning, otaTasks>>
       ELSE IF command = OTA_CMD_START_OTA
       THEN /\ StartOta
            /\ UNCHANGED wifiVars
       ELSE IF command = OTA_CMD_CANCEL_OTA
       THEN /\ ota_cancel
            /\ UNCHANGED <<otaStatus, otaProgress, wifiVars, otaTaskRunning, otaTasks>>
       ELSE IF command = OTA_CMD_GET_STATUS
       THEN /\ OtaAnswer(command, otaStatus, otaProgress)
            /\ UNCHANGED <<otaCancelled, wifiVars, otaTaskRunning, otaTasks>>
       ELSE /\ OtaAnswer(command, "OTA_STATUS_ERROR", 0)
            /\ UNCHANGED <<otaCancelled, wifiVars, otaTaskRunning, otaTasks>>
    /\ UNCHANGED <<clock, loopVars, bleVars, audioVars, captureVars, photoVars,
                   powerVars, obsVars, uiVars, ctlVars>>


\* Chunks of the firmware image in the explorations (contentLength).
OtaChunks == 2

\* ota_notify_status as ota_task calls it (ota.cpp:280-292); the observer keeps
\* the last status the run reported.
TaskSay(status, progress) ==
    /\ otaStatus' = status
    /\ otaProgress' = progress
    /\ otaObs' = [otaObs EXCEPT !.said = status]

TaskAt(i, p) == otaTasks' = [otaTasks EXCEPT ![i].at = p]

TaskQuiet == UNCHANGED <<otaStatus, otaProgress, otaObs>>

\* connect_wifi up to its wait loop (ota.cpp:377-385)
connect_wifi_begin(i) ==
    /\ otaTasks[i].at = "begin"
    /\ TaskSay("OTA_STATUS_WIFI_CONNECTING", 0)
    /\ TaskAt(i, "connecting")
    /\ UNCHANGED otaTaskRunning

\* The exits of the wait loop of connect_wifi (ota.cpp:386-405): the station
\* is up, or it is not and the run is cancelled or the 15 s are over.
connect_wifi_wait(i) ==
    /\ otaTasks[i].at = "connecting"
    /\ \E up \in BOOLEAN :
          IF up
          THEN /\ TaskSay("OTA_STATUS_WIFI_CONNECTED", 0)
               /\ TaskAt(i, "connected")
          ELSE /\ TaskQuiet
               /\ TaskAt(i, "wififail")
    /\ UNCHANGED otaTaskRunning

\* ota_task, connect_wifi returned false (ota.cpp:317-318)
ota_task_wififail(i) ==
    /\ otaTasks[i].at = "wififail"
    /\ TaskSay("OTA_STATUS_WIFI_FAILED", 0)
    /\ TaskAt(i, "clear")
    /\ UNCHANGED otaTaskRunning

\* ota_task, the cancel test after the connection (ota.cpp:325-327), and the
\* first notification of download_and_install_firmware (ota.cpp:437)
ota_task_connected(i) ==
    /\ otaTasks[i].at = "connected"
    /\ IF otaCancelled
       THEN /\ TaskSay("OTA_STATUS_IDLE", 0)
            /\ TaskAt(i, "clear")
       ELSE /\ TaskSay("OTA_STATUS_DOWNLOADING", 0)
            /\ TaskAt(i, "download")
    /\ UNCHANGED otaTaskRunning

\* download_and_install_firmware from the client to the first pass of the
\* loop (ota.cpp:439-526): the client, the GET request or the length fails,
\* Update.begin fails, or the installation starts.
download_open(i) ==
    /\ otaTasks[i].at = "download"
    /\ \E outcome \in {"get", "space", "ok"} :
          \/ /\ outcome = "get"
             /\ TaskSay("OTA_STATUS_DOWNLOAD_FAILED", 0)
             /\ TaskAt(i, "clear")
          \/ /\ outcome = "space"
             /\ TaskSay("OTA_STATUS_INSTALL_FAILED", 0)
             /\ TaskAt(i, "clear")
          \/ /\ outcome = "ok"
             /\ TaskSay("OTA_STATUS_INSTALLING", 0)
             /\ otaTasks' = [otaTasks EXCEPT ![i] = [at |-> "installing", read |-> 0]]
    /\ UNCHANGED otaTaskRunning

\* One pass of the loop of download_and_install_firmware (ota.cpp:528-568):
\* the loop ends when the connection is gone or everything is read; a pass
\* first tests otaCancelled, then reads and writes a chunk.
download_pass(i) ==
    LET read     == otaTasks[i].read
        progress == ((read + 1) * 100) \div OtaChunks
    IN
    /\ otaTasks[i].at = "installing"
    /\ \E isConnected \in BOOLEAN, written \in BOOLEAN :
          IF ~(isConnected /\ read < OtaChunks)
          THEN /\ TaskQuiet
               /\ TaskAt(i, "verify")
          ELSE IF otaCancelled
          THEN /\ TaskSay("OTA_STATUS_IDLE", 0)
               /\ TaskAt(i, "clear")
          ELSE IF ~written
          THEN /\ TaskSay("OTA_STATUS_INSTALL_FAILED", 0)
               /\ TaskAt(i, "clear")
          ELSE /\ IF progress % 5 = 0
                  THEN TaskSay("OTA_STATUS_INSTALLING", progress)
                  ELSE TaskQuiet
               /\ otaTasks' = [otaTasks EXCEPT ![i].read = read + 1]
    /\ UNCHANGED otaTaskRunning

\* download_and_install_firmware after the loop (ota.cpp:570-601)
download_verify(i) ==
    /\ otaTasks[i].at = "verify"
    /\ \E ended \in BOOLEAN :
          IF otaTasks[i].read # OtaChunks
          THEN /\ TaskSay("OTA_STATUS_DOWNLOAD_FAILED", 0)
               /\ TaskAt(i, "clear")
          ELSE IF ~ended
          THEN /\ TaskSay("OTA_STATUS_INSTALL_FAILED", 0)
               /\ TaskAt(i, "clear")
          ELSE /\ TaskSay("OTA_STATUS_INSTALL_COMPLETE", 100)
               /\ TaskAt(i, "complete")
    /\ UNCHANGED otaTaskRunning

\* ota_task, the firmware is installed (ota.cpp:346-347)
ota_task_complete(i) ==
    /\ otaTasks[i].at = "complete"
    /\ TaskSay("OTA_STATUS_REBOOTING", 0)
    /\ TaskAt(i, "rebooting")
    /\ UNCHANGED otaTaskRunning

\* ota_task, ESP.restart after the two delays (ota.cpp:348-356)
ota_task_restart(i) ==
    /\ otaTasks[i].at = "rebooting"
    /\ otaObs' = [otaObs EXCEPT !.reboot = TRUE]
    /\ TaskAt(i, "restarted")
    /\ UNCHANGED <<otaStatus, otaProgress, otaTaskRunning>>

\* ota_task, otaTaskRunning = false on the three returns (ota.cpp:319, 328, 338)
ota_task_clear(i) ==
    /\ otaTasks[i].at = "clear"
    /\ otaTaskRunning' = FALSE
    /\ TaskAt(i, "delete")
    /\ TaskQuiet

\* ota_task, vTaskDelete(NULL) (ota.cpp:320, 329, 339)
ota_task_delete(i) ==
    /\ otaTasks[i].at = "delete"
    /\ otaTasks' = [k \in 1..(Len(otaTasks) - 1) |->
                       IF k < i THEN otaTasks[k] ELSE otaTasks[k + 1]]
    /\ TaskQuiet
    /\ UNCHANGED otaTaskRunning

\* A step of the i-th ota_task.
ota_task(i) ==
    /\ i \in 1..Len(otaTasks)
    /\ ~otaObs.reboot
    /\ \/ connect_wifi_begin(i)
       \/ connect_wifi_wait(i)
       \/ ota_task_wififail(i)
       \/ ota_task_connected(i)
       \/ download_open(i)
       \/ download_pass(i)
       \/ download_verify(i)
       \/ ota_task_complete(i)
       \/ ota_task_restart(i)
       \/ ota_task_clear(i)
       \/ ota_task_delete(i)
    /\ UNCHANGED <<otaCancelled, wifiVars>>
    /\ UNCHANGED <<clock, loopVars, bleVars, audioVars, captureVars, photoVars,
                   powerVars, obsVars, uiVars, ctlVars>>

\* Commands of the explorations of the task: the network name "1" with an
\* empty password, the address "1", start, cancel, status, an unknown byte.
OtaRunCommands ==
    { <<OTA_CMD_SET_WIFI, 1, 1, 0>>, <<OTA_CMD_SET_URL, 0, 1, 1>>,
      <<OTA_CMD_START_OTA>>, <<OTA_CMD_CANCEL_OTA>>, <<OTA_CMD_GET_STATUS>>,
      <<0>> }

NextOta ==
    \/ \E data \in OtaRunCommands : ota_handle_command(data)
    \/ \E i \in 1..MaxOtaTasks : ota_task(i)

SpecOta == InitAt("idle") /\ [][NextOta]_vars

\* Tasks that have not yet stored otaTaskRunning = false.
OtaLive == { i \in 1..Len(otaTasks) : otaTasks[i].at # "delete" }

SpecOtaFair ==
    /\ InitAt("idle")
    /\ [][NextOta]_vars
    /\ \A i \in 1..MaxOtaTasks : WF_vars(ota_task(i))

\* C38: once ota_cancel has been called while the task was running, the task
\* stores otaTaskRunning = false, the last status it reported when it does so
\* is OTA_STATUS_IDLE, and the run does not reach ESP.restart.
C38_CancelExits ==
    /\ (otaObs.cancel /\ otaTaskRunning) ~> ~otaTaskRunning
    /\ [][ (otaObs.cancel /\ otaTaskRunning /\ ~otaTaskRunning') =>
              otaObs.said = "OTA_STATUS_IDLE" ]_vars
    /\ [](otaObs.cancel => ~otaObs.reboot)


\* Largest byte and longest body (the bytes after the command byte) of the
\* configuration commands the explorations send.
OtaByteMax == 3
OtaBodyLen == 3

RECURSIVE OtaBodies(_)
OtaBodies(n) ==
    IF n = 0 THEN { <<>> }
    ELSE LET shorter == OtaBodies(n - 1) IN
         shorter \cup { Append(b, x) : b \in { s \in shorter : Len(s) = n - 1 },
                                       x \in 0..OtaByteMax }

\* Configuration commands: OTA_CMD_SET_WIFI or OTA_CMD_SET_URL followed by
\* any bytes, well-formed or not.
OtaCfgCommands ==
    { <<c>> \o b : c \in {OTA_CMD_SET_WIFI, OTA_CMD_SET_URL},
                   b \in OtaBodies(OtaBodyLen) }

NextOtaCfg == \E data \in OtaCfgCommands : ota_handle_command(data)

SpecOtaCfg == InitAt("idle") /\ [][NextOtaCfg]_vars

\* C39: a SET_WIFI or SET_URL command that ota_handle_command answers with
\* OTA_STATUS_ERROR leaves wifiSSID, wifiPassword, firmwareURL,
\* wifiCredentialsSet and firmwareURLSet as they were.
C39_RejectedUnchanged ==
    [][ (/\ otaObs'.n # otaObs.n
         /\ otaObs'.cmd \in {OTA_CMD_SET_WIFI, OTA_CMD_SET_URL}
         /\ otaObs'.rejected) =>
            UNCHANGED wifiVars ]_vars

=============================================================================
